---- MODULE Spec2Model ----
(***************************************************************************)
(* A model of kostanza's cost-attribution core (package coster):           *)
(*   - BufferingCostExporter: ExportCost / startFlusher / flush, with the  *)
(*     mutex, the buffer keyed by CostData.key(), and the downstream       *)
(*     exporter (SpecBuf);                                                 *)
(*   - CostTable.FindByLabels and CostTableEntry.Match (SpecTable);        *)
(*   - the float64 rate conversions CPU/Memory/GPUCostMicroCents           *)
(*     (SpecCost);                                                         *)
(*   - buildNormalizedNodeResourceMap and the pricing strategies           *)
(*     (SpecStrat).                                                        *)
(* Go strings whose bytes matter (dimension names and values, the key      *)
(* string) are sequences of byte values; other strings are TLA+ strings.   *)
(***************************************************************************)
EXTENDS Integers, Sequences, FiniteSets, TLC

VARIABLES
    \* ---- BufferingCostExporter (part_006:168-174) and its goroutines
    buffer,      \* bce.buffer: map[CostDataKey]CostData
    mux,         \* bce.mux: Unlocked, or who holds it
    ctxDone,     \* bce.ctx is cancelled
    pc,          \* pc[p]: where producer p is inside ExportCost
    cd,          \* cd[p]: the argument of p's ExportCost call
    k,           \* k[p]: the local k of ExportCost
    v,           \* v[p]: the local v of ExportCost
    fpc,         \* where the flush goroutine is
    pending,     \* keys the range loop of flush has still to visit
    cur,         \* the key whose record is being handed to bce.next
    downstream,  \* what bce.next.ExportCost has received, in order, and what became
                 \* of each publish
    pubsubErrors, \* MeasurePubsubPublishErrors as recorded so far
    exports,     \* number of ExportCost calls made so far
    flushes,     \* number of flushes completed so far
    \* ---- history variables (not program state)
    hist,        \* records stored by ExportCost since the last flush, with their keys
    snap,        \* the buffer as it was when the running flush began
    inSum,       \* per key, the sum of the Values ExportCost has stored
    \* ---- CostTable lookups (table.go)
    table,       \* ct.Entries: a sequence of CostTableEntry
    labels,      \* the candidate Labels
    tblResult,   \* what the last Match / FindByLabels call returned
    \* ---- the rate conversions of CostTableEntry (table.go)
    costEntry,   \* the receiver e
    costQty,     \* the quantity priced
    costDur,     \* the duration priced, in seconds
    costResult,  \* what the last call returned
    \* ---- the pricing strategies (part_005)
    pods,        \* the pods of the cluster
    nodes,       \* the nodes of the cluster
    stTable,     \* the CostTable the strategies price with
    duration,    \* the duration priced, in seconds
    stResult,    \* what the last strategy call returned
    \* ---- Mapper (part_011)
    mapper,      \* m.Entries: a sequence of Mapping
    mapObj,      \* the object the rules are applied to
    mapResult,   \* what the last MapData / TagKeys call returned
    \* ---- the coster (main.go, coster.go)
    mainPc,      \* where the program is: startup, run, returned or fatal
    config,      \* the configuration file it is started with
    ctxCancelled, \* the context of Run is cancelled
    taskPc,      \* taskPc[t]: goroutine t of Run is idle, running or has returned
    groupErr,    \* the error the errgroup holds: the first that was not nil
    loopPc,      \* where the calculation loop is
    tickC,       \* c.ticker.C holds a tick
    lastRun,     \* c.lastRun; 0 is the zero time
    cluster,     \* which state of the cluster the informers' caches hold
    cyPods,      \* the local pods of calculate
    cyNodes,     \* the local nodes of calculate
    cyInterval,  \* the local interval of calculate, in seconds
    cyFirst,     \* the running cycle is the first one
    cis,         \* the local cis of calculate
    strategyIdx, \* the strategy the loop of calculate is at
    received,    \* received[e]: what exporter e has been handed since the last tick
                 \* was taken, in order
    \* ---- history variables of the coster (not program state)
    calls,       \* the strategy calls of the running cycle, with their arguments
    reads,       \* what the List calls of the running cycle returned
    lastCycle,   \* the cycle that finished last, as CalculateAndEmit recorded it,
                 \* with the durations billed so far and the time of the first
    finished,    \* number of cycles finished
    taken        \* number of ticks the loop has taken

bufVars == <<buffer, mux, ctxDone, pc, cd, k, v, fpc, pending, cur,
             downstream, pubsubErrors, exports, flushes, hist, snap, inSum>>

tblVars == <<table, labels, tblResult>>

costVars == <<costEntry, costQty, costDur, costResult>>

stratVars == <<pods, nodes, stTable, duration, stResult>>

mapVars == <<mapper, mapObj, mapResult>>

cycleVars == <<cyPods, cyNodes, cyInterval, cyFirst, cis, strategyIdx, calls, reads>>

runVars == <<mainPc, config, ctxCancelled, taskPc, groupErr, loopPc,
             tickC, lastRun, received, lastCycle, finished, taken, cluster, cycleVars>>

vars == <<bufVars, tblVars, costVars, stratVars, mapVars, runVars>>

\* What the actions of one part leave unchanged: the variables of the others.
notBufVars == <<tblVars, costVars, stratVars, mapVars, runVars>>
notTblVars == <<bufVars, costVars, stratVars, mapVars, runVars>>
notCostVars == <<bufVars, tblVars, stratVars, mapVars, runVars>>
notStratVars == <<bufVars, tblVars, costVars, mapVars, runVars>>
notMapVars == <<bufVars, tblVars, costVars, stratVars, runVars>>
notRunVars == <<bufVars, tblVars, costVars, stratVars, mapVars>>

----------------------------------------------------------------------------
(* Bounds of the model.                                                    *)
NumProducers == 2
MaxExports == 2
MaxFlushes == 2
MaxEntries == 2
MaxPods == 2
MaxRules == 2
MaxTicks == 3
MaxTime == 3
NumExporters == 2

(* Bytes used by CostData.key().                                           *)
Colon == 58
Comma == 44

Producers == 1..NumProducers
\* Values of mux: not held, held by the flush goroutine, held by producer p.
Unlocked == [by |-> "nobody", id |-> 0]
Flusher == [by |-> "flusher", id |-> 0]
HeldBy(p) == [by |-> "producer", id |-> p]

----------------------------------------------------------------------------
(* Generic helpers.                                                        *)

\* All enumerations of a finite set: the orders in which `range` may visit a
\* Go map.
Perms(S) ==
    {f \in [1..Cardinality(S) -> S] : \A i, j \in DOMAIN f : f[i] = f[j] => i = j}

\* Go's string comparison a < b: bytewise lexicographic.
RECURSIVE StrLess(_, _)
StrLess(a, b) ==
    IF Len(b) = 0 THEN FALSE
    ELSE IF Len(a) = 0 THEN TRUE
    ELSE IF Head(a) < Head(b) THEN TRUE
    ELSE IF Head(a) > Head(b) THEN FALSE
    ELSE StrLess(Tail(a), Tail(b))

\* Insert string s into the sorted sequence of strings ss.
RECURSIVE InsertSorted(_, _)
InsertSorted(s, ss) ==
    IF Len(ss) = 0 THEN <<s>>
    ELSE IF StrLess(s, Head(ss)) THEN <<s>> \o ss
    ELSE <<Head(ss)>> \o InsertSorted(s, Tail(ss))

\* Mutant of SortStrings: the slice is left in enumeration order.
SortStrings_NoSort(ss) ==
    ss

\* sort.StringSlice.Sort: ascending order.
RECURSIVE SortStrings(_)
SortStrings(ss) ==
    IF Len(ss) = 0 THEN <<>>
    ELSE InsertSorted(Head(ss), SortStrings(Tail(ss)))

\* strings.Join(ss, sep).
RECURSIVE Join(_, _)
Join(ss, sep) ==
    IF Len(ss) = 0 THEN <<>>
    ELSE IF Len(ss) = 1 THEN ss[1]
    ELSE ss[1] \o sep \o Join(Tail(ss), sep)

\* Sum of the Value fields of a sequence of records.
RECURSIVE SumValues(_)
SumValues(rs) ==
    IF Len(rs) = 0 THEN 0 ELSE Head(rs).Value + SumValues(Tail(rs))

----------------------------------------------------------------------------
(* CostData, CostDataKey and CostData.key().                               *)

\* fmt.Sprintf("%s:%s", k, v)
SprintfKV(name, value) ==
    name \o <<Colon>> \o value

\* CostData.key(), with `order` the order in which range visits c.Dimensions.
key(c, order) ==
    LET dims == [i \in 1..Len(order) |-> SprintfKV(order[i], c.Dimensions[order[i]])]
    IN  [Kind       |-> c.Kind,
         Strategy   |-> c.Strategy,
         Dimensions |-> Join(SortStrings(dims), <<Comma>>)]

\* Dimension maps of the inputs: a:b,c:d / a:"b,c:d" / a:b,c:e
DimsBarFoo == (<<97>> :> <<98>>) @@ (<<99>> :> <<100>>)
DimsJoined == (<<97>> :> <<98, 44, 99, 58, 100>>)
DimsBazFoo == (<<97>> :> <<98>>) @@ (<<99>> :> <<101>>)

MkCostData(kind, strategy, value, dims, endTime) ==
    [Kind |-> kind, Strategy |-> strategy, Value |-> value,
     Dimensions |-> dims, EndTime |-> endTime]

\* The records producers may export.
CostDataInputs ==
    { MkCostData("weighted", "WeightedPricingStrategy", 5, DimsBarFoo, 2),
      MkCostData("weighted", "WeightedPricingStrategy", 3, DimsBarFoo, 1),
      MkCostData("weighted", "WeightedPricingStrategy", 3, DimsBazFoo, 2),
      MkCostData("weighted", "WeightedPricingStrategy", 3, DimsJoined, 2),
      MkCostData("cpu", "WeightedPricingStrategy", 3, DimsBarFoo, 2),
      MkCostData("weighted", "CPUPricingStrategy", 3, DimsBarFoo, 2) }

\* The zero CostData a Go map lookup yields for an absent key.
ZeroCostData == MkCostData("", "", 0, <<>>, 0)
NoKey == [Kind |-> "", Strategy |-> "", Dimensions |-> <<>>]
EmptyBuffer == <<>>

\* Mutant of Lookup: the record buffered under the key is not found.
Lookup_Absent(buf, key0) ==
    ZeroCostData

\* bce.buffer[key]
Lookup(buf, key0) ==
    IF key0 \in DOMAIN buf THEN buf[key0] ELSE ZeroCostData

\* bce.buffer[key] = rec
Store(buf, key0, rec) ==
    [x \in DOMAIN buf \cup {key0} |-> IF x = key0 THEN rec ELSE buf[x]]

\* Mutant of ResetBuffer: flush forgets to replace the buffer.
ResetBuffer_Keep(buf) ==
    buf

\* bce.buffer = map[CostDataKey]CostData{}
ResetBuffer(buf) ==
    EmptyBuffer

----------------------------------------------------------------------------
(* sync.Mutex.                                                             *)

\* Mutant of MuxFree: Lock never waits.
MuxFree_NoWait(m) ==
    TRUE

\* Lock can proceed only when the mutex is not held.
MuxFree(m) ==
    m = Unlocked

----------------------------------------------------------------------------
(* BufferingCostExporter.ExportCost, part_006:201-208.                     *)

\* A goroutine calls bce.ExportCost(c).
Call(p) ==
    /\ pc[p] = "idle"
    /\ exports < MaxExports
    /\ \E c \in CostDataInputs : cd' = [cd EXCEPT ![p] = c]
    /\ pc' = [pc EXCEPT ![p] = "lock"]
    /\ exports' = exports + 1
    /\ UNCHANGED <<buffer, mux, ctxDone, k, v, fpc, pending, cur, downstream,
                   flushes, hist, snap, inSum,
                   pubsubErrors, notBufVars>>

\* bce.mux.Lock()
Lock(p) ==
    /\ pc[p] = "lock"
    /\ MuxFree(mux)
    /\ mux' = HeldBy(p)
    /\ pc' = [pc EXCEPT ![p] = "read"]
    /\ UNCHANGED <<buffer, ctxDone, cd, k, v, fpc, pending, cur, downstream,
                   exports, flushes, hist, snap, inSum,
                   pubsubErrors, notBufVars>>

\* k := cd.key(); v := bce.buffer[k].Value
Read(p) ==
    /\ pc[p] = "read"
    /\ \E order \in Perms(DOMAIN cd[p].Dimensions) :
         LET key0 == key(cd[p], order)
         IN  /\ k' = [k EXCEPT ![p] = key0]
             /\ v' = [v EXCEPT ![p] = Lookup(buffer, key0).Value]
    /\ pc' = [pc EXCEPT ![p] = "write"]
    /\ UNCHANGED <<buffer, mux, ctxDone, cd, fpc, pending, cur, downstream,
                   exports, flushes, hist, snap, inSum,
                   pubsubErrors, notBufVars>>

\* cd.Value += v; bce.buffer[k] = cd
Write(p) ==
    /\ pc[p] = "write"
    /\ buffer' = Store(buffer, k[p], [cd[p] EXCEPT !.Value = cd[p].Value + v[p]])
    /\ hist' = Append(hist, [rec |-> cd[p], key |-> k[p]])
    /\ inSum' = Store(inSum, k[p], (IF k[p] \in DOMAIN inSum THEN inSum[k[p]] ELSE 0) + cd[p].Value)
    /\ pc' = [pc EXCEPT ![p] = "unlock"]
    /\ UNCHANGED <<mux, ctxDone, cd, k, v, fpc, pending, cur, downstream,
                   exports, flushes, snap,
                   pubsubErrors, notBufVars>>

\* the deferred bce.mux.Unlock(), and the return
Unlock(p) ==
    /\ pc[p] = "unlock"
    /\ mux' = Unlocked
    /\ pc' = [pc EXCEPT ![p] = "idle"]
    /\ cd' = [cd EXCEPT ![p] = ZeroCostData]
    /\ k' = [k EXCEPT ![p] = NoKey]
    /\ v' = [v EXCEPT ![p] = 0]
    /\ UNCHANGED <<buffer, ctxDone, fpc, pending, cur, downstream,
                   exports, flushes, hist, snap, inSum,
                   pubsubErrors, notBufVars>>

----------------------------------------------------------------------------
(* startFlusher and flush, part_006:210-233.                               *)

\* The context given to NewBufferingCostExporter is cancelled.
Cancel ==
    /\ ~ctxDone
    /\ ctxDone' = TRUE
    /\ UNCHANGED <<buffer, mux, pc, cd, k, v, fpc, pending, cur, downstream,
                   exports, flushes, hist, snap, inSum,
                   pubsubErrors, notBufVars>>

\* select: case <-ticker.C: bce.flush()
Tick ==
    /\ fpc = "select"
    /\ flushes < MaxFlushes
    /\ fpc' = "lock"
    /\ UNCHANGED <<buffer, mux, ctxDone, pc, cd, k, v, pending, cur, downstream,
                   exports, flushes, hist, snap, inSum,
                   pubsubErrors, notBufVars>>

\* select: case <-ticker.C: bce.flush(), with the ticker firing for as long
\* as there is anything to flush.
TickerFlush ==
    /\ fpc = "select"
    /\ flushes < MaxFlushes \/ buffer # EmptyBuffer
    /\ fpc' = "lock"
    /\ UNCHANGED <<buffer, mux, ctxDone, pc, cd, k, v, pending, cur, downstream,
                   exports, flushes, hist, snap, inSum,
                   pubsubErrors, notBufVars>>

\* Mutant of FlusherExit: the loop returns although the context is not done.
FlusherExit_Unasked ==
    /\ fpc = "select"
    /\ fpc' = "exited"
    /\ UNCHANGED <<buffer, mux, ctxDone, pc, cd, k, v, pending, cur, downstream,
                   exports, flushes, hist, snap, inSum,
                   pubsubErrors, notBufVars>>

\* Mutant of FlusherExit: the loop flushes one last time before it returns.
FlusherExit_FinalFlush ==
    /\ fpc = "select"
    /\ ctxDone
    /\ MuxFree(mux)
    /\ fpc' = "exited"
    /\ buffer' = EmptyBuffer
    /\ hist' = <<>>
    /\ IF buffer = EmptyBuffer THEN downstream' = downstream
       ELSE \E key0 \in DOMAIN buffer :
               downstream' = Append(downstream, [rec |-> buffer[key0], key |-> key0,
                                                 flush |-> flushes + 1, result |-> "sent"])
    /\ UNCHANGED <<mux, ctxDone, pc, cd, k, v, pending, cur,
                   exports, flushes, snap, inSum,
                   pubsubErrors, notBufVars>>

\* select: case <-done: return
FlusherExit ==
    /\ fpc = "select"
    /\ ctxDone
    /\ fpc' = "exited"
    /\ UNCHANGED <<buffer, mux, ctxDone, pc, cd, k, v, pending, cur, downstream,
                   exports, flushes, hist, snap, inSum,
                   pubsubErrors, notBufVars>>

\* flush: bce.mux.Lock(); the range loop starts
FlushLock ==
    /\ fpc = "lock"
    /\ MuxFree(mux)
    /\ mux' = Flusher
    /\ fpc' = "range"
    /\ pending' = DOMAIN buffer
    /\ snap' = buffer
    /\ UNCHANGED <<buffer, ctxDone, pc, cd, k, v, cur, downstream,
                   exports, flushes, hist, inSum,
                   pubsubErrors, notBufVars>>

\* for _, v := range bce.buffer { bce.next.ExportCost(v): the call is made
FlushForward ==
    /\ fpc = "range"
    /\ \E key0 \in pending \cap DOMAIN buffer :
         /\ cur' = key0
         /\ pending' = pending \ {key0}
         /\ downstream' = Append(downstream, [rec |-> buffer[key0], key |-> key0,
                                               flush |-> flushes + 1,
                                               result |-> "sent"])
    /\ fpc' = "next"
    /\ UNCHANGED <<buffer, mux, ctxDone, pc, cd, k, v,
                   exports, flushes, hist, snap, inSum,
                   pubsubErrors, notBufVars>>

\* bce.next.ExportCost(v) returns
FlushNextReturn ==
    /\ fpc = "next"
    /\ cur' = NoKey
    /\ fpc' = "range"
    /\ UNCHANGED <<buffer, mux, ctxDone, pc, cd, k, v, pending, downstream,
                   exports, flushes, hist, snap, inSum,
                   pubsubErrors, notBufVars>>

\* the range loop is over: bce.buffer = map[CostDataKey]CostData{}
FlushReset ==
    /\ fpc = "range"
    /\ pending \cap DOMAIN buffer = {}
    /\ buffer' = ResetBuffer(buffer)
    /\ hist' = <<>>
    /\ pending' = {}
    /\ fpc' = "unlock"
    /\ UNCHANGED <<mux, ctxDone, pc, cd, k, v, cur, downstream,
                   exports, flushes, snap, inSum,
                   pubsubErrors, notBufVars>>

\* the deferred bce.mux.Unlock(); flush returns to the select
FlushUnlock ==
    /\ fpc = "unlock"
    /\ mux' = Unlocked
    /\ fpc' = "select"
    /\ flushes' = flushes + 1
    /\ UNCHANGED <<buffer, ctxDone, pc, cd, k, v, pending, cur, downstream,
                   exports, hist, snap, inSum,
                   pubsubErrors, notBufVars>>


----------------------------------------------------------------------------
(* PubsubCostExporter.ExportCost, part_006:255-273, the exporter behind the *)
(* buffer.  It publishes the record and returns; a goroutine of its own     *)
(* waits for the result of the publish.  (json.Marshal has no error for a   *)
(* CostData: strings, an int64, a map of strings and a time of the clock.)  *)

\* Mutant of PublishErrors: a failed publish is only logged.
PublishErrors_Uncounted(n) ==
    n

\* stats.Record(pe.ctx, MeasurePubsubPublishErrors.M(1)), part_006:269.
PublishErrors(n) ==
    n + 1

\* res.Get(pe.ctx) returns an error for a record published earlier: the
\* error is logged and counted, and nothing else is done.  (When it returns
\* no error the goroutine ends without a trace.)
PublishFails ==
    /\ \E i \in DOMAIN downstream :
          /\ downstream[i].result = "sent"
          /\ downstream' = [downstream EXCEPT ![i].result = "failed"]
    /\ pubsubErrors' = PublishErrors(pubsubErrors)
    /\ UNCHANGED <<buffer, mux, ctxDone, pc, cd, k, v, fpc, pending, cur,
                   exports, flushes, hist, snap, inSum, notBufVars>>

----------------------------------------------------------------------------
(* NewBufferingCostExporter, part_006:180-196: an empty buffer, an unlocked *)
(* mutex, the flush goroutine at its select.                                *)
InitBuf ==
    /\ buffer = EmptyBuffer
    /\ mux = Unlocked
    /\ ctxDone = FALSE
    /\ pc = [p \in Producers |-> "idle"]
    /\ cd = [p \in Producers |-> ZeroCostData]
    /\ k = [p \in Producers |-> NoKey]
    /\ v = [p \in Producers |-> 0]
    /\ fpc = "select"
    /\ pending = {}
    /\ cur = NoKey
    /\ downstream = <<>>
    /\ pubsubErrors = 0
    /\ exports = 0
    /\ flushes = 0
    /\ hist = <<>>
    /\ snap = EmptyBuffer
    /\ inSum = <<>>

NextBuf ==
    \/ \E p \in Producers : Call(p)
    \/ \E p \in Producers : Lock(p)
    \/ \E p \in Producers : Read(p)
    \/ \E p \in Producers : Write(p)
    \/ \E p \in Producers : Unlock(p)
    \/ Cancel
    \/ Tick
    \/ FlusherExit
    \/ FlushLock
    \/ FlushForward
    \/ FlushNextReturn
    \/ FlushReset
    \/ FlushUnlock
    \/ PublishFails


----------------------------------------------------------------------------
(* Labels, CostTableEntry, CostTable: table.go.                            *)
(* A Labels map is a function from label names to label values; a nil map  *)
(* and an empty map are the same function (len 0, nothing to range over).  *)

LabelKeys == {"size", "region"}
LabelValues == {"large", "usa"}

\* Every Labels map over the label universe.
LabelSets ==
    UNION {[ks -> LabelValues] : ks \in SUBSET LabelKeys}

\* A rate read from the configuration: the float64 num / 2^shift.
Rate(num, shift) == [num |-> num, shift |-> shift]

MkEntry(ls, mem, cpu, gpu) ==
    [Labels |-> ls,
     HourlyMemoryByteCostMicroCents |-> mem,
     HourlyMilliCPUCostMicroCents |-> cpu,
     HourlyGPUCostMicroCents |-> gpu]

\* Every table of at most MaxEntries entries (rates play no part in lookups).
Tables ==
    UNION {[1..n -> {MkEntry(ls, Rate(0, 0), Rate(0, 0), Rate(0, 0)) : ls \in LabelSets}] : n \in 0..MaxEntries}

\* Mutant of LabelsMatch: only the label name is compared.
LabelsMatch_KeyOnly(l, name, value) ==
    \E kk \in DOMAIN l : kk = name

\* Labels.Match(key, value), table.go:32-39.
LabelsMatch(l, name, value) ==
    \E kk \in DOMAIN l : kk = name /\ l[kk] = value

\* CostTableEntry.Match(labels), table.go:63-74.
EntryMatch(e, ls) ==
    IF Cardinality(DOMAIN ls) = 0 /\ Cardinality(DOMAIN e.Labels) = 0
    THEN TRUE
    ELSE \A kk \in DOMAIN e.Labels : LabelsMatch(ls, kk, e.Labels[kk])

\* The result of FindByLabels: the index of the entry returned (0 for nil)
\* and the error.
Found(i) == [entry |-> i, err |-> "nil"]
NotFound == [entry |-> 0, err |-> "ErrNoCostEntry"]

\* The range loop of FindByLabels from entry i on.
RECURSIVE FindFrom(_, _, _)
FindFrom(entries, ls, i) ==
    IF i > Len(entries) THEN NotFound
    ELSE IF EntryMatch(entries[i], ls) THEN Found(i)
    ELSE FindFrom(entries, ls, i + 1)

\* Mutant of FindByLabels: the matching entry with the most labels wins.
FindByLabels_MostSpecific(entries, ls) ==
    LET M == {i \in DOMAIN entries : EntryMatch(entries[i], ls)}
    IN  IF M = {} THEN NotFound
        ELSE Found(CHOOSE i \in M : \A j \in M :
                 \/ Cardinality(DOMAIN entries[j].Labels) < Cardinality(DOMAIN entries[i].Labels)
                 \/ /\ Cardinality(DOMAIN entries[j].Labels) = Cardinality(DOMAIN entries[i].Labels)
                    /\ i <= j)

\* CostTable.FindByLabels(labels), table.go:118-125.
FindByLabels(entries, ls) ==
    FindFrom(entries, ls, 1)

\* e.Match(labels) is called on entry i of the table.
CallMatch ==
    /\ \E i \in DOMAIN table :
         tblResult' = [op |-> "Match", i |-> i, res |-> EntryMatch(table[i], labels)]
    /\ UNCHANGED <<table, labels, notTblVars>>

\* ct.FindByLabels(labels) is called.
CallFindByLabels ==
    /\ tblResult' = [op |-> "FindByLabels", i |-> 0, res |-> FindByLabels(table, labels)]
    /\ UNCHANGED <<table, labels, notTblVars>>

NoCall == [op |-> "none", i |-> 0, res |-> FALSE]

\* The lookups are not running: an empty table.
IdleTable ==
    /\ table = <<>>
    /\ labels = <<>>
    /\ tblResult = NoCall

InitTable ==
    /\ table \in Tables
    /\ labels \in LabelSets
    /\ tblResult = NoCall

NextTable ==
    \/ CallMatch
    \/ CallFindByLabels


----------------------------------------------------------------------------
(* float64 arithmetic, as the Go compiler performs it (IEEE 754 binary64,   *)
(* round to nearest, ties to even) on the non-negative finite values the    *)
(* cost functions see.  A significand has 53 bits, more than a TLC integer  *)
(* holds, so it is kept as a little-endian sequence of 14-bit limbs.        *)

LimbBits == 14
Base == 2^LimbBits
MantBits == 53
\* The quotient of a MantBits-bit significand by a divisor of at most 30 bits
\* is computed to this many fraction bits before it is rounded, which leaves
\* it more than MantBits + 2 bits.
DivBits == 36

\* Number of bits of the non-negative integer n.
RECURSIVE BitLen(_)
BitLen(n) ==
    IF n = 0 THEN 0 ELSE 1 + BitLen(n \div 2)

\* x without its high zero limbs.
RECURSIVE BigNorm(_)
BigNorm(x) ==
    IF Len(x) = 0 THEN x
    ELSE IF x[Len(x)] = 0 THEN BigNorm(SubSeq(x, 1, Len(x) - 1))
    ELSE x

RECURSIVE BigFromInt(_)
BigFromInt(n) ==
    IF n = 0 THEN <<>> ELSE <<n % Base>> \o BigFromInt(n \div Base)

RECURSIVE BigToInt(_)
BigToInt(x) ==
    IF Len(x) = 0 THEN 0 ELSE x[1] + Base * BigToInt(Tail(x))

BigBitLen(x) ==
    IF Len(x) = 0 THEN 0 ELSE LimbBits * (Len(x) - 1) + BitLen(x[Len(x)])

\* Carry propagation over column sums, from column i on.
RECURSIVE BigCarry(_, _, _)
BigCarry(cols, i, carry) ==
    IF i > Len(cols)
    THEN BigFromInt(carry)
    ELSE <<(cols[i] + carry) % Base>> \o BigCarry(cols, i + 1, (cols[i] + carry) \div Base)

\* Sum of f[i] over the integers lo..hi.
RECURSIVE SumRange(_, _, _)
SumRange(f, lo, hi) ==
    IF lo > hi THEN 0 ELSE f[lo] + SumRange(f, lo + 1, hi)

\* x * y.
BigMul(x, y) ==
    IF Len(x) = 0 \/ Len(y) = 0 THEN <<>>
    ELSE LET Max(a, b) == IF a > b THEN a ELSE b
             Min(a, b) == IF a < b THEN a ELSE b
             Col(c) == LET lo == Max(1, c + 1 - Len(y))
                           hi == Min(Len(x), c)
                       IN  SumRange([i \in lo..hi |-> x[i] * y[c + 1 - i]], lo, hi)
         IN  BigNorm(BigCarry([c \in 1..(Len(x) + Len(y) - 1) |-> Col(c)], 1, 0))

\* x * 2^n.
BigShl(x, n) ==
    IF Len(x) = 0 THEN x
    ELSE [i \in 1..(n \div LimbBits) |-> 0] \o BigMul(x, <<2^(n % LimbBits)>>)

\* floor(x / 2^n).
BigShr(x, n) ==
    LET q == n \div LimbBits
        r == n % LimbBits
        Limb(i) == IF i <= Len(x) THEN x[i] ELSE 0
    IN  IF q >= Len(x) THEN <<>>
        ELSE BigNorm([i \in 1..(Len(x) - q) |->
                 (Limb(i + q) \div 2^r) + (Limb(i + q + 1) % 2^r) * 2^(LimbBits - r)])

\* Bit n of x (bit 0 is the lowest).
BigBit(x, n) ==
    IF n \div LimbBits >= Len(x) THEN 0
    ELSE (x[n \div LimbBits + 1] \div 2^(n % LimbBits)) % 2

\* The n low bits of x are all zero.
BigLowZero(x, n) ==
    BigShl(BigShr(x, n), n) = BigNorm(x)

\* x + 1.
BigInc(x) ==
    BigNorm(BigCarry(x, 1, 1))

\* One limb of a long division by the integer d, 0 < d <= 2^30: the bits of
\* limb from bit i down are brought into the remainder rem one at a time; the
\* limb of the quotient and the remainder left.
RECURSIVE DivLimb(_, _, _, _)
DivLimb(limb, d, i, rem) ==
    IF i < 0 THEN [q |-> 0, r |-> rem]
    ELSE LET t == 2 * rem + ((limb \div 2^i) % 2)
             qb == IF t >= d THEN 1 ELSE 0
             rest == DivLimb(limb, d, i - 1, t - qb * d)
         IN  [q |-> qb * 2^i + rest.q, r |-> rest.r]

\* Long division of the limbs 1..i of x, with remainder rem carried in.
RECURSIVE BigDivFrom(_, _, _, _)
BigDivFrom(x, d, i, rem) ==
    IF i = 0 THEN [q |-> <<>>, r |-> rem]
    ELSE LET step == DivLimb(x[i], d, LimbBits - 1, rem)
             rest == BigDivFrom(x, d, i - 1, step.r)
         IN  [q |-> rest.q \o <<step.q>>, r |-> rest.r]

\* Quotient and remainder of x by d.
BigDivSmall(x, d) ==
    LET res == BigDivFrom(x, d, Len(x), 0)
    IN  [q |-> BigNorm(res.q), r |-> res.r]

\* A float64 is [m, e] with value m * 2^e and m of exactly MantBits bits, or
\* FZero.
FZero == [m |-> <<>>, e |-> 0]

\* The float64 nearest to x * 2^e (+ a non-zero amount below x's lowest bit
\* when sticky), ties to even.
FRound(x, e, sticky) ==
    LET L == BigBitLen(x)
        s == L - MantBits
    IN  IF L <= MantBits
        THEN [m |-> BigShl(x, MantBits - L), e |-> e - (MantBits - L)]
        ELSE LET q == BigShr(x, s)
                 guard == BigBit(x, s - 1)
                 st == sticky \/ ~BigLowZero(x, s - 1)
                 up == guard = 1 /\ (st \/ BigBit(q, 0) = 1)
                 q2 == IF up THEN BigInc(q) ELSE q
             IN  IF BigBitLen(q2) > MantBits
                 THEN [m |-> BigShr(q2, 1), e |-> e + s + 1]
                 ELSE [m |-> q2, e |-> e + s]

\* float64(n) for an integer n >= 0 held as limbs.
Float64Big(x) ==
    IF Len(BigNorm(x)) = 0 THEN FZero ELSE FRound(BigNorm(x), 0, FALSE)

\* float64(n) for an integer 0 <= n < 2^31: exact.
Float64(n) ==
    Float64Big(BigFromInt(n))

\* a * b
FMul(a, b) ==
    IF Len(a.m) = 0 \/ Len(b.m) = 0 THEN FZero
    ELSE FRound(BigMul(a.m, b.m), a.e + b.e, FALSE)

\* a / float64(b) for an integer 0 < b <= 2^30: the correctly rounded
\* quotient.
FDiv(a, b) ==
    IF Len(a.m) = 0 THEN FZero
    ELSE LET res == BigDivSmall(BigShl(a.m, DivBits), b)
         IN  FRound(res.q, a.e - DivBits, res.r # 0)

\* float64(a) / float64(b) for integers a >= 0 and 0 < b <= 2^30.
FDivInt(a, b) ==
    FDiv(Float64(a), b)

\* int64(x): truncation toward zero.
Int64(x) ==
    IF Len(x.m) = 0 THEN 0
    ELSE IF x.e >= 0 THEN BigToInt(BigShl(x.m, x.e))
    ELSE BigToInt(BigShr(x.m, -x.e))

\* The float64 a rate holds.
Float64Rate(r) ==
    IF r.num = 0 THEN FZero
    ELSE [m |-> Float64(r.num).m, e |-> Float64(r.num).e - r.shift]

----------------------------------------------------------------------------
(* The rate conversions of CostTableEntry, table.go:76-95.  A duration is   *)
(* a whole number of seconds: float64(duration) / float64(time.Hour) is the *)
(* correctly rounded quotient of two exactly represented nanosecond counts, *)
(* which is the float64 nearest to seconds / 3600.                          *)

Hour == 3600

\* durfrac := float64(duration) / float64(time.Hour)
DurFrac(dur) ==
    FDivInt(dur, Hour)

\* CostTableEntry.CPUCostMicroCents(millicpu, duration)
CPUCostMicroCents(e, millicpu, dur) ==
    Int64(FMul(FMul(millicpu, DurFrac(dur)), Float64Rate(e.HourlyMilliCPUCostMicroCents)))

\* CostTableEntry.MemoryCostMicroCents(membytes, duration)
MemoryCostMicroCents(e, membytes, dur) ==
    Int64(FMul(FMul(membytes, DurFrac(dur)), Float64Rate(e.HourlyMemoryByteCostMicroCents)))

\* CostTableEntry.GPUCostMicroCents(gpus, duration)
GPUCostMicroCents(e, gpus, dur) ==
    Int64(FMul(FMul(gpus, DurFrac(dur)), Float64Rate(e.HourlyGPUCostMicroCents)))

\* The calls of the rate conversions: the quantities, durations (seconds) and
\* entries they are applied to.
Quantities == {0, 1, 7, 100, 500, 1000, 1048576}
Durations == {60, 300, 1044, 1200, 3600}
CostEntries ==
    {MkEntry(<<>>, Rate(1, 0), Rate(1000, 0), Rate(3, 0)),
     MkEntry(<<>>, Rate(3, 0), Rate(375, 1), Rate(1000, 0)),
     MkEntry(<<>>, Rate(375, 1), Rate(3, 0), Rate(1, 0))}

NoCost == [op |-> "none", value |-> 0]

\* e.CPUCostMicroCents(float64(costQty), costDur) is called.
CallCPUCost ==
    /\ costResult' = [op |-> "CPUCostMicroCents",
                      value |-> CPUCostMicroCents(costEntry, Float64(costQty), costDur)]
    /\ UNCHANGED <<costEntry, costQty, costDur, notCostVars>>

\* e.MemoryCostMicroCents(float64(costQty), costDur) is called.
CallMemoryCost ==
    /\ costResult' = [op |-> "MemoryCostMicroCents",
                      value |-> MemoryCostMicroCents(costEntry, Float64(costQty), costDur)]
    /\ UNCHANGED <<costEntry, costQty, costDur, notCostVars>>

\* e.GPUCostMicroCents(float64(costQty), costDur) is called.
CallGPUCost ==
    /\ costResult' = [op |-> "GPUCostMicroCents",
                      value |-> GPUCostMicroCents(costEntry, Float64(costQty), costDur)]
    /\ UNCHANGED <<costEntry, costQty, costDur, notCostVars>>

\* The rate conversions are not running.
IdleCost ==
    /\ costEntry = MkEntry(<<>>, Rate(0, 0), Rate(0, 0), Rate(0, 0))
    /\ costQty = 0
    /\ costDur = 0
    /\ costResult = NoCost

InitCost ==
    /\ costEntry \in CostEntries
    /\ costQty \in Quantities
    /\ costDur \in Durations
    /\ costResult = NoCost

NextCost ==
    \/ CallCPUCost
    \/ CallMemoryCost
    \/ CallGPUCost

----------------------------------------------------------------------------
(* The pricing strategies, part_005:299-719 (strategy.go).                  *)

ResourceCPU == "cpu"
ResourceMemory == "memory"
ResourceGPU == "nvidia.com/gpu"

\* A resource.Quantity: n units, or n thousandths of a unit when milli.
Quantity(n, milli) == [n |-> n, milli |-> milli]

\* Quantity.Value(): the units, rounded up.
Value(q) ==
    IF q.milli THEN (q.n + 999) \div 1000 ELSE q.n

\* Quantity.MilliValue(): the thousandths of a unit, as limbs.
MilliValueBig(q) ==
    IF q.milli THEN BigFromInt(q.n) ELSE BigMul(BigFromInt(q.n), BigFromInt(1000))

\* Quantity.MilliValue() of a quantity whose thousandths fit an integer of
\* the model.
MilliValue(q) ==
    BigToInt(MilliValueBig(q))

\* ResourceList.Cpu(), ResourceList.Memory() and gpuCapacity: the quantity of
\* the list or, if it is absent, a zero quantity.
Capacity(n, kind) ==
    IF kind \in DOMAIN n.Capacity THEN n.Capacity[kind] ELSE Quantity(0, FALSE)

Mi == 1048576
Gi == 1073741824

MkPod(name, nodeName, containers) ==
    [Name |-> name, NodeName |-> nodeName, Phase |-> "Running", Containers |-> containers]

MkNode(name, ls, capacity) ==
    [Name |-> name, Labels |-> ls, Capacity |-> capacity]

\* The pods and nodes of the strategy tests, and pods that are scheduled on a
\* node that is not listed, that has no pricing entry, or that run two
\* containers.
PodA ==
    MkPod("a", "n1", <<(ResourceCPU :> Quantity(500, TRUE)) @@ (ResourceMemory :> Quantity(32 * Mi, FALSE))>>)
PodB ==
    MkPod("b", "n1", <<(ResourceCPU :> Quantity(250, TRUE)) @@ (ResourceMemory :> Quantity(32 * Mi, FALSE))>>)
PodNoResources ==
    MkPod("none", "n1", <<<<>>>>)
PodGPU ==
    MkPod("gpu", "n2", <<(ResourceGPU :> Quantity(1, FALSE))>>)
PodTwoContainers ==
    MkPod("two", "n2", <<(ResourceCPU :> Quantity(1, FALSE)) @@ (ResourceMemory :> Quantity(32 * Mi, FALSE)),
                         (ResourceCPU :> Quantity(500, TRUE)) @@ (ResourceGPU :> Quantity(1, FALSE))>>)
PodLost ==
    MkPod("lost", "gone", <<(ResourceCPU :> Quantity(500, TRUE))>>)
PodUnpriced ==
    MkPod("unpriced", "n3", <<(ResourceCPU :> Quantity(500, TRUE))>>)

\* resourceTestPod of the sumPodResource test, part_010:33-62, and a pod whose
\* containers request fractions of a byte and of a GPU.
resourceTestPod ==
    MkPod("test", "", <<(ResourceMemory :> Quantity(32 * Mi, FALSE)) @@ (ResourceCPU :> Quantity(1000, TRUE)),
                        (ResourceMemory :> Quantity(16 * Mi, FALSE)) @@ (ResourceCPU :> Quantity(500, TRUE))>>)
PodFractional ==
    MkPod("fraction", "n2", <<(ResourceGPU :> Quantity(500, TRUE)) @@ (ResourceMemory :> Quantity(1500, TRUE)),
                              (ResourceGPU :> Quantity(500, TRUE)) @@ (ResourceMemory :> Quantity(1500, TRUE))>>)

PodUniverse ==
    {PodA, PodB, PodNoResources, PodGPU, PodTwoContainers, PodLost, PodUnpriced}

NodeStd ==
    MkNode("n1", [size |-> "large"],
           (ResourceCPU :> Quantity(1, FALSE)) @@ (ResourceMemory :> Quantity(Gi, FALSE)))
NodeGPU ==
    MkNode("n2", [size |-> "large", region |-> "usa"],
           (ResourceCPU :> Quantity(1, FALSE)) @@ (ResourceGPU :> Quantity(1, FALSE)))
NodeUnpriced ==
    MkNode("n3", <<>>,
           (ResourceCPU :> Quantity(2, FALSE)) @@ (ResourceMemory :> Quantity(Gi, FALSE)))

NodeLists ==
    {<<NodeStd>>, <<NodeStd, NodeGPU>>, <<NodeUnpriced, NodeGPU, NodeStd>>}

\* The cost table of the strategy tests, alone and behind an entry for one
\* region.
TestEntry ==
    MkEntry([size |-> "large"], Rate(1, 0), Rate(1000, 0), Rate(7000000, 0))
RegionEntry ==
    MkEntry([region |-> "usa"], Rate(3, 0), Rate(375, 1), Rate(1000000, 0))
StratTables ==
    {<<TestEntry>>, <<RegionEntry, TestEntry>>}
StratDurations == {300, 3600}

\* Every list of at most MaxPods pods, each listed once.
PodLists ==
    UNION {{ps \in [1..n -> PodUniverse] : \A i, j \in 1..n : ps[i] = ps[j] => i = j}
             : n \in 0..MaxPods}

\* sumPodResource with a break where the code continues: the sum stops at the
\* first container without a request for kind.
RECURSIVE SumContainers_Break(_, _, _)
SumContainers_Break(cs, kind, i) ==
    IF i > Len(cs) THEN 0
    ELSE IF kind \notin DOMAIN cs[i] THEN 0
    ELSE IF kind = ResourceMemory THEN Value(cs[i][kind]) + SumContainers_Break(cs, kind, i + 1)
    ELSE IF kind = ResourceGPU THEN Value(cs[i][kind]) + SumContainers_Break(cs, kind, i + 1)
    ELSE MilliValue(cs[i][kind]) + SumContainers_Break(cs, kind, i + 1)

\* sumPodResource(p, kind) over the containers from i on, part_005:621-639.
RECURSIVE SumContainers(_, _, _)
SumContainers(cs, kind, i) ==
    IF i > Len(cs) THEN 0
    ELSE IF kind \notin DOMAIN cs[i] THEN SumContainers(cs, kind, i + 1)
    ELSE IF kind = ResourceMemory THEN Value(cs[i][kind]) + SumContainers(cs, kind, i + 1)
    ELSE IF kind = ResourceGPU THEN Value(cs[i][kind]) + SumContainers(cs, kind, i + 1)
    ELSE MilliValue(cs[i][kind]) + SumContainers(cs, kind, i + 1)

sumPodResource(p, kind) ==
    SumContainers(p.Containers, kind, 1)

\* buildNodeMap(nodes), part_005:644-650: a later node of a name replaces an
\* earlier one.
buildNodeMap(ns) ==
    [name \in {ns[i].Name : i \in DOMAIN ns} |->
        ns[CHOOSE i \in DOMAIN ns :
              /\ ns[i].Name = name
              /\ \A j \in DOMAIN ns : ns[j].Name = name => j <= i]]

\* The second loop of buildNormalizedNodeResourceMap from pod i on: the
\* requests of each pod are added to the entry of its node.
RECURSIVE AddPods(_, _, _)
AddPods(nrm, ps, i) ==
    IF i > Len(ps) THEN nrm
    ELSE IF ps[i].NodeName \notin DOMAIN nrm THEN AddPods(nrm, ps, i + 1)
    ELSE LET nr == nrm[ps[i].NodeName]
         IN  AddPods([nrm EXCEPT ![ps[i].NodeName] =
                         [nr EXCEPT !.cpuUsed = nr.cpuUsed + sumPodResource(ps[i], ResourceCPU),
                                    !.memoryUsed = nr.memoryUsed + sumPodResource(ps[i], ResourceMemory),
                                    !.gpuUsed = nr.gpuUsed + sumPodResource(ps[i], ResourceGPU)]],
                     ps, i + 1)

\* Mutant of DefaultUsed: a zero sum is kept.
DefaultUsed_Keep(used, available) ==
    used

\* if v.cpuUsed == 0 { v.cpuUsed = v.cpuAvailable }, part_005:703-713.
DefaultUsed(used, available) ==
    IF used = 0 THEN available ELSE used

\* buildNormalizedNodeResourceMap(pods, nodes), part_005:657-719.
buildNormalizedNodeResourceMap(ps, ns) ==
    LET nm == buildNodeMap(ns)
        empty == [name \in DOMAIN nm |->
                     [cpuUsed |-> 0, memoryUsed |-> 0, gpuUsed |-> 0,
                      cpuAvailable |-> 0, gpuAvailable |-> 0, memoryAvailable |-> 0,
                      node |-> nm[name]]]
        summed == AddPods(empty, ps, 1)
    IN  [name \in DOMAIN summed |->
            LET vv == summed[name]
                cpuAvailable == MilliValue(Capacity(vv.node, ResourceCPU))
                memoryAvailable == Value(Capacity(vv.node, ResourceMemory))
                gpuAvailable == Value(Capacity(vv.node, ResourceGPU))
            IN  [cpuUsed |-> DefaultUsed(vv.cpuUsed, cpuAvailable),
                 memoryUsed |-> DefaultUsed(vv.memoryUsed, memoryAvailable),
                 gpuUsed |-> DefaultUsed(vv.gpuUsed, gpuAvailable),
                 cpuAvailable |-> cpuAvailable,
                 gpuAvailable |-> gpuAvailable,
                 memoryAvailable |-> memoryAvailable,
                 node |-> vv.node]]

\* Mutant of CPUScale: the request is not scaled.
CPUScale_Unscaled(nr) ==
    Float64(1)

\* allocatedNodeResources.CPUScale(), part_005:368-373.
CPUScale(nr) ==
    IF nr.cpuUsed = 0 THEN FZero ELSE FDivInt(nr.cpuAvailable, nr.cpuUsed)

\* allocatedNodeResources.MemoryScale(), part_005:375-380.
MemoryScale(nr) ==
    IF nr.memoryUsed = 0 THEN FZero ELSE FDivInt(nr.memoryAvailable, nr.memoryUsed)

\* allocatedNodeResources.GPUScale(), part_005:382-387.
GPUScale(nr) ==
    IF nr.gpuUsed = 0 THEN FZero ELSE FDivInt(nr.gpuAvailable, nr.gpuUsed)

NoPod == MkPod("", "", <<>>)

CostItem(kind, strategy, value, pod, node) ==
    [Kind |-> kind, Strategy |-> strategy, Value |-> value, Pod |-> pod, Node |-> node]

\* The loop of WeightedPricingStrategy from pod i on.
RECURSIVE WeightedFrom(_, _, _, _, _)
WeightedFrom(tbl, dur, ps, nrm, i) ==
    IF i > Len(ps) THEN <<>>
    ELSE IF ps[i].NodeName \notin DOMAIN nrm THEN WeightedFrom(tbl, dur, ps, nrm, i + 1)
    ELSE LET p == ps[i]
             cpu == sumPodResource(p, ResourceCPU)
             mem == sumPodResource(p, ResourceMemory)
             gpu == sumPodResource(p, ResourceGPU)
             nr == nrm[p.NodeName]
             found == FindByLabels(tbl, nr.node.Labels)
         IN  IF found.err # "nil" THEN WeightedFrom(tbl, dur, ps, nrm, i + 1)
             ELSE LET te == tbl[found.entry]
                      cpucost == CPUCostMicroCents(te, FMul(Float64(cpu), CPUScale(nr)), dur)
                      memcost == MemoryCostMicroCents(te, FMul(Float64(mem), MemoryScale(nr)), dur)
                      gpucost == GPUCostMicroCents(te, FMul(Float64(gpu), GPUScale(nr)), dur)
                  IN  <<CostItem("weighted", "WeightedPricingStrategy",
                                 cpucost + memcost + gpucost, p, nr.node)>>
                      \o WeightedFrom(tbl, dur, ps, nrm, i + 1)

\* WeightedPricingStrategy(table, duration, pods, nodes), part_005:522-564.
WeightedPricingStrategy(tbl, dur, ps, ns) ==
    WeightedFrom(tbl, dur, ps, buildNormalizedNodeResourceMap(ps, ns), 1)

\* Mutant of NodeCost: the gpu capacity is not priced.
NodeCost_NoGPU(te, dur, n) ==
    MemoryCostMicroCents(te,
        FDiv(Float64Big(MilliValueBig(Capacity(n, ResourceMemory))), 1000), dur)
    + CPUCostMicroCents(te, Float64(MilliValue(Capacity(n, ResourceCPU))), dur)

\* The value NodePricingStrategy gives node n under entry te, part_005:590-600.
NodeCost(te, dur, n) ==
    LET memcost == MemoryCostMicroCents(te,
                       FDiv(Float64Big(MilliValueBig(Capacity(n, ResourceMemory))), 1000), dur)
        cpucost == CPUCostMicroCents(te, Float64(MilliValue(Capacity(n, ResourceCPU))), dur)
        gpucost == GPUCostMicroCents(te, Float64(Value(Capacity(n, ResourceGPU))), dur)
    IN  memcost + cpucost + gpucost

\* The loop of NodePricingStrategy from node i on.
RECURSIVE NodeFrom(_, _, _, _)
NodeFrom(tbl, dur, ns, i) ==
    IF i > Len(ns) THEN <<>>
    ELSE LET found == FindByLabels(tbl, ns[i].Labels)
         IN  IF found.err # "nil" THEN NodeFrom(tbl, dur, ns, i + 1)
             ELSE <<CostItem("node", "NodePricingStrategy",
                             NodeCost(tbl[found.entry], dur, ns[i]), NoPod, ns[i])>>
                  \o NodeFrom(tbl, dur, ns, i + 1)

\* NodePricingStrategy(table, duration, pods, nodes), part_005:569-613.
NodePricingStrategy(tbl, dur, ps, ns) ==
    NodeFrom(tbl, dur, ns, 1)

\* The loop of CPUPricingStrategy from pod i on.
RECURSIVE CPUFrom(_, _, _, _, _)
CPUFrom(tbl, dur, ps, nm, i) ==
    IF i > Len(ps) THEN <<>>
    ELSE IF ps[i].NodeName \notin DOMAIN nm THEN CPUFrom(tbl, dur, ps, nm, i + 1)
    ELSE LET cpu == sumPodResource(ps[i], ResourceCPU)
             node == nm[ps[i].NodeName]
             found == FindByLabels(tbl, node.Labels)
         IN  IF found.err # "nil" THEN CPUFrom(tbl, dur, ps, nm, i + 1)
             ELSE <<CostItem("cpu", "CPUPricingStrategy",
                             CPUCostMicroCents(tbl[found.entry], Float64(cpu), dur),
                             ps[i], node)>>
                  \o CPUFrom(tbl, dur, ps, nm, i + 1)

\* CPUPricingStrategy(table, duration, pods, nodes), part_005:402-435.
CPUPricingStrategy(tbl, dur, ps, ns) ==
    CPUFrom(tbl, dur, ps, buildNodeMap(ns), 1)

\* The loop of MemoryPricingStrategy from pod i on.
RECURSIVE MemoryFrom(_, _, _, _, _)
MemoryFrom(tbl, dur, ps, nm, i) ==
    IF i > Len(ps) THEN <<>>
    ELSE IF ps[i].NodeName \notin DOMAIN nm THEN MemoryFrom(tbl, dur, ps, nm, i + 1)
    ELSE LET mem == sumPodResource(ps[i], ResourceMemory)
             node == nm[ps[i].NodeName]
             found == FindByLabels(tbl, node.Labels)
         IN  IF found.err # "nil" THEN MemoryFrom(tbl, dur, ps, nm, i + 1)
             ELSE <<CostItem("memory", "MemoryPricingStrategy",
                             MemoryCostMicroCents(tbl[found.entry], Float64(mem), dur),
                             ps[i], node)>>
                  \o MemoryFrom(tbl, dur, ps, nm, i + 1)

\* Mutant of MemoryPricingStrategy: a pod without memory request is left out,
\* as the gpu strategy leaves out a pod without gpu request.
MemoryPricingStrategy_SkipZero(tbl, dur, ps, ns) ==
    LET Requests(p) == sumPodResource(p, ResourceMemory) # 0
    IN  MemoryFrom(tbl, dur, SelectSeq(ps, Requests), buildNodeMap(ns), 1)

\* MemoryPricingStrategy(table, duration, pods, nodes), part_005:440-473.
MemoryPricingStrategy(tbl, dur, ps, ns) ==
    MemoryFrom(tbl, dur, ps, buildNodeMap(ns), 1)

\* The loop of GPUPricingStrategy from pod i on: a pod without gpu request is
\* skipped before its node is looked at.
RECURSIVE GPUFrom(_, _, _, _, _)
GPUFrom(tbl, dur, ps, nm, i) ==
    IF i > Len(ps) THEN <<>>
    ELSE LET gpu == sumPodResource(ps[i], ResourceGPU)
         IN  IF gpu = 0 THEN GPUFrom(tbl, dur, ps, nm, i + 1)
             ELSE IF ps[i].NodeName \notin DOMAIN nm THEN GPUFrom(tbl, dur, ps, nm, i + 1)
             ELSE LET node == nm[ps[i].NodeName]
                      found == FindByLabels(tbl, node.Labels)
                  IN  IF found.err # "nil" THEN GPUFrom(tbl, dur, ps, nm, i + 1)
                      ELSE <<CostItem("gpu", "GPUPricingStrategy",
                                      GPUCostMicroCents(tbl[found.entry], Float64(gpu), dur),
                                      ps[i], node)>>
                           \o GPUFrom(tbl, dur, ps, nm, i + 1)

\* Mutant of GPUPricingStrategy: the request is scaled by the node's gpu
\* usage, as the weighted strategy does, and no pod is left out.
GPUPricingStrategy_Scaled(tbl, dur, ps, ns) ==
    LET w == WeightedPricingStrategy(tbl, dur, ps, ns)
    IN  [i \in DOMAIN w |->
            CostItem("gpu", "GPUPricingStrategy",
                     GPUCostMicroCents(tbl[FindByLabels(tbl, w[i].Node.Labels).entry],
                         FMul(Float64(sumPodResource(w[i].Pod, ResourceGPU)),
                              GPUScale(buildNormalizedNodeResourceMap(ps, ns)[w[i].Pod.NodeName])),
                         dur),
                     w[i].Pod, w[i].Node)]

\* GPUPricingStrategy(table, duration, pods, nodes), part_005:476-515.
GPUPricingStrategy(tbl, dur, ps, ns) ==
    GPUFrom(tbl, dur, ps, buildNodeMap(ns), 1)

\* No call has been made yet; one call is made on each input.
NoStrategy == [op |-> "none", items |-> <<>>, nrm |-> <<>>]

\* WeightedPricingStrategy.Calculate(stTable, duration, pods, nodes) is called.
CallWeighted ==
    /\ stResult = NoStrategy
    /\ stResult' = [op |-> "WeightedPricingStrategy",
                    items |-> WeightedPricingStrategy(stTable, duration, pods, nodes),
                    nrm |-> <<>>]
    /\ UNCHANGED <<pods, nodes, stTable, duration, notStratVars>>

\* NodePricingStrategy.Calculate(stTable, duration, pods, nodes) is called.
CallNode ==
    /\ stResult = NoStrategy
    /\ stResult' = [op |-> "NodePricingStrategy",
                    items |-> NodePricingStrategy(stTable, duration, pods, nodes),
                    nrm |-> <<>>]
    /\ UNCHANGED <<pods, nodes, stTable, duration, notStratVars>>

\* CPUPricingStrategy.Calculate(stTable, duration, pods, nodes) is called.
CallCPU ==
    /\ stResult = NoStrategy
    /\ stResult' = [op |-> "CPUPricingStrategy",
                    items |-> CPUPricingStrategy(stTable, duration, pods, nodes),
                    nrm |-> <<>>]
    /\ UNCHANGED <<pods, nodes, stTable, duration, notStratVars>>

\* MemoryPricingStrategy.Calculate(stTable, duration, pods, nodes) is called.
CallMemory ==
    /\ stResult = NoStrategy
    /\ stResult' = [op |-> "MemoryPricingStrategy",
                    items |-> MemoryPricingStrategy(stTable, duration, pods, nodes),
                    nrm |-> <<>>]
    /\ UNCHANGED <<pods, nodes, stTable, duration, notStratVars>>

\* GPUPricingStrategy.Calculate(stTable, duration, pods, nodes) is called.
CallGPU ==
    /\ stResult = NoStrategy
    /\ stResult' = [op |-> "GPUPricingStrategy",
                    items |-> GPUPricingStrategy(stTable, duration, pods, nodes),
                    nrm |-> <<>>]
    /\ UNCHANGED <<pods, nodes, stTable, duration, notStratVars>>

\* buildNormalizedNodeResourceMap(pods, nodes) is called.
CallBuildNormalizedNodeResourceMap ==
    /\ stResult = NoStrategy
    /\ stResult' = [op |-> "buildNormalizedNodeResourceMap",
                    items |-> <<>>,
                    nrm |-> buildNormalizedNodeResourceMap(pods, nodes)]
    /\ UNCHANGED <<pods, nodes, stTable, duration, notStratVars>>

\* sumPodResource(p, kind) is called on a listed pod or on a pod of its own
\* test.
SumPods ==
    {pods[i] : i \in DOMAIN pods} \cup {resourceTestPod, PodFractional}

CallSumPodResource ==
    /\ stResult = NoStrategy
    /\ \E p \in SumPods, kind \in {ResourceCPU, ResourceMemory, ResourceGPU} :
           stResult' = [op |-> "sumPodResource", items |-> <<>>, nrm |-> <<>>,
                        pod |-> p, kind |-> kind, value |-> sumPodResource(p, kind)]
    /\ UNCHANGED <<pods, nodes, stTable, duration, notStratVars>>

\* The strategies are not running: an empty cluster.
IdleStrat ==
    /\ pods = <<>>
    /\ nodes = <<>>
    /\ stTable = <<>>
    /\ duration = 0
    /\ stResult = NoStrategy

InitStrat ==
    /\ pods \in PodLists
    /\ nodes \in NodeLists
    /\ stTable \in StratTables
    /\ duration \in StratDurations
    /\ stResult = NoStrategy

NextStrat ==
    \/ CallCPU
    \/ CallMemory
    \/ CallGPU
    \/ CallWeighted
    \/ CallNode
    \/ CallBuildNormalizedNodeResourceMap
    \/ CallSumPodResource

----------------------------------------------------------------------------
(* The Mapper, part_011:15-77 (mapper.go).  The object a rule reads is a    *)
(* tree: a leaf holds a string, an inner node the fields of a struct or the *)
(* keys of a map.  The Source of a rule is the JSONPath template text; the  *)
(* model keeps the shapes the text can have: "{.a.b.c}" (Path), "{.a.b[0]}" *)
(* (Index), text without braces (Text), and text the JSONPath parser        *)
(* rejects (Bad).                                                           *)

Leaf(text) == [leaf |-> TRUE, text |-> text, fields |-> <<>>]
Inner(fields) == [leaf |-> FALSE, text |-> "", fields |-> fields]

Path(names) == [shape |-> "path", names |-> names, text |-> ""]
Text(text) == [shape |-> "text", names |-> <<>>, text |-> text]
Bad == [shape |-> "bad", names |-> <<>>, text |-> ""]
Index(names) == [shape |-> "index", names |-> names, text |-> ""]

Mapping(default, destination, source) ==
    [Default |-> default, Destination |-> destination, Source |-> source]

\* The object of the mapper tests, with an annotation whose value is empty.
testStruct ==
    Inner([Metadata |-> Inner([Labels |-> Inner([service |-> Leaf("svc-via-label")]),
                               Annotations |-> Inner([service |-> Leaf("svc-via-annotation"),
                                                      blank |-> Leaf("")])])])

\* An object without annotations.
bareStruct ==
    Inner([Metadata |-> Inner([Labels |-> Inner([service |-> Leaf("svc-via-label")])])])

MapObjects == {testStruct, bareStruct}

Sources ==
    {Path(<<"Metadata", "Annotations", "service">>),
     Path(<<"Metadata", "Annotations", "nonexistent">>),
     Path(<<"Metadata", "Annotations", "blank">>),
     Path(<<"Metadata", "Labels", "service">>),
     Text("static"),
     Index(<<"Metadata", "Annotations", "service">>),
     Bad}

Destinations == {"service", "team", ""}
Defaults == {"", "fresh-default"}

Mappings ==
    {Mapping(d, n, src) : d \in Defaults, n \in Destinations, src \in Sources}

\* Every mapper of at most MaxRules rules.
Mappers ==
    UNION {[1..n -> Mappings] : n \in 0..MaxRules}

\* j.Parse(mp.Source) returns an error.
ParseFails(source) ==
    source.shape = "bad"

\* What j.Execute writes for the nodes found: the nodes reached from obj by
\* the field names from i on; a name that is missing, or looked up in a
\* leaf, finds nothing (AllowMissingKeys).
RECURSIVE Find(_, _, _)
Find(obj, names, i) ==
    IF i > Len(names) THEN <<obj>>
    ELSE IF obj.leaf THEN <<>>
    ELSE IF names[i] \notin DOMAIN obj.fields THEN <<>>
    ELSE Find(obj.fields[names[i]], names, i + 1)

\* j.Execute(buf, obj) returns an error: an element is asked of a value that
\* is not an array or slice (no value of the objects of the model is one).
\* Indexing what a missing field leaves, nothing, is no error.
ExecuteFails(source, obj) ==
    source.shape = "index" /\ Len(Find(obj, source.names, 1)) > 0

\* buf.String() after j.Execute(buf, obj).
Execute(source, obj) ==
    IF source.shape = "text" THEN source.text
    ELSE IF source.shape = "index" THEN ""
    ELSE LET found == Find(obj, source.names, 1)
         IN  IF Len(found) = 0 THEN ""
             ELSE IF found[1].leaf THEN found[1].text
             ELSE "map[...]"

\* Mutant of Extracted: the default is used only when the path finds
\* nothing, not when it finds an empty string.
Extracted_DefaultOnlyIfMissing(mp, obj) ==
    IF mp.Source.shape = "path" /\ Len(Find(obj, mp.Source.names, 1)) = 0
    THEN mp.Default
    ELSE Execute(mp.Source, obj)

\* res[mp.Destination] after one turn of the loop of MapData,
\* part_011:71-74.
Extracted(mp, obj) ==
    IF Execute(mp.Source, obj) = "" THEN mp.Default ELSE Execute(mp.Source, obj)

\* Mutant of Assign: a destination that is already set is kept.
Assign_KeepFirst(res, mp, obj) ==
    IF mp.Destination \in DOMAIN res THEN res
    ELSE [d \in DOMAIN res \cup {mp.Destination} |->
             IF d = mp.Destination THEN Extracted(mp, obj) ELSE res[d]]

\* res[mp.Destination] = ...: the map with the destination set.
Assign(res, mp, obj) ==
    [d \in DOMAIN res \cup {mp.Destination} |->
        IF d = mp.Destination THEN Extracted(mp, obj) ELSE res[d]]

\* Mutant of MapFrom: on an error the map built so far is returned with it.
RECURSIVE MapFrom_Partial(_, _, _, _)
MapFrom_Partial(entries, obj, i, res) ==
    IF i > Len(entries) THEN [res |-> res, err |-> "nil"]
    ELSE IF ParseFails(entries[i].Source) THEN [res |-> res, err |-> "parse"]
    ELSE IF ExecuteFails(entries[i].Source, obj) THEN [res |-> res, err |-> "execute"]
    ELSE MapFrom_Partial(entries, obj, i + 1, Assign(res, entries[i], obj))

\* The loop of MapData from rule i on, with the map built so far.
RECURSIVE MapFrom(_, _, _, _)
MapFrom(entries, obj, i, res) ==
    IF i > Len(entries) THEN [res |-> res, err |-> "nil"]
    ELSE IF ParseFails(entries[i].Source) THEN [res |-> <<>>, err |-> "parse"]
    ELSE IF ExecuteFails(entries[i].Source, obj) THEN [res |-> <<>>, err |-> "execute"]
    ELSE MapFrom(entries, obj, i + 1, Assign(res, entries[i], obj))

\* Mapper.MapData(obj), part_011:55-77.
MapData(entries, obj) ==
    MapFrom(entries, obj, 1, <<>>)

\* tag.NewKey(name) returns an error: the name is empty.
NewKeyFails(name) ==
    name = ""

\* Mapper.TagKeys(), part_011:39-50: the keys, or the first error.
TagKeys(entries) ==
    IF \E i \in DOMAIN entries : NewKeyFails(entries[i].Destination)
    THEN [keys |-> <<>>, err |-> "invalid key"]
    ELSE [keys |-> [i \in DOMAIN entries |-> entries[i].Destination], err |-> "nil"]

NoMapCall == [op |-> "none", res |-> <<>>, err |-> "nil"]

\* m.MapData(mapObj) is called.
CallMapData ==
    /\ mapResult = NoMapCall
    /\ mapResult' = [op |-> "MapData",
                     res |-> MapData(mapper, mapObj).res,
                     err |-> MapData(mapper, mapObj).err]
    /\ UNCHANGED <<mapper, mapObj, notMapVars>>

\* m.TagKeys() is called.
CallTagKeys ==
    /\ mapResult = NoMapCall
    /\ mapResult' = [op |-> "TagKeys",
                     res |-> TagKeys(mapper).keys,
                     err |-> TagKeys(mapper).err]
    /\ UNCHANGED <<mapper, mapObj, notMapVars>>

\* The mapper is not running: no rules.
IdleMap ==
    /\ mapper = <<>>
    /\ mapObj = Inner(<<>>)
    /\ mapResult = NoMapCall

InitMap ==
    /\ mapper \in Mappers
    /\ mapObj \in MapObjects
    /\ mapResult = NoMapCall

NextMap ==
    \/ CallMapData
    \/ CallTagKeys

-----------------------------------------------------------------------------
(* The coster: startup (main.go:123-157), calculate (coster.go:446-486),    *)
(* CalculateAndEmit (coster.go:488-520) and Run (coster.go:522-586).  Run   *)
(* starts four goroutines in an errgroup over a shared cancellable context: *)
(* the pod lister, the node lister, the HTTP server and the calculation     *)
(* loop.  Time is counted in readings of the clock, one reading apart being *)
(* one collectInterval.                                                     *)

\* The default of the --interval flag, in seconds.
collectInterval == 10

\* The goroutines of Run, in the order they are started.
TaskPodLister == "podLister"
TaskNodeLister == "nodeLister"
TaskServer == "server"
TaskLoop == "loop"
Tasks == {TaskPodLister, TaskNodeLister, TaskServer, TaskLoop}

ErrSenselessInterval == "senseless interval since last calculation"
ErrCacheSyncFailed == "cache sync failed"
ErrServerClosed == "http: Server closed"
ErrListen == "listen failed"

tagStatusSucceeded == "succeeded"
tagStatusFailed == "failed"

\* A pod that is scheduled but not running.
PodPending ==
    [MkPod("pending", "n1", <<(ResourceCPU :> Quantity(250, TRUE))>>) EXCEPT !.Phase = "Pending"]

\* What the informers' caches can hold: the pods and nodes of the cluster
\* before and after a change.
PodCaches == <<(<<PodA, PodPending>>), (<<PodA, PodGPU, PodB>>)>>
NodeCaches == <<(<<NodeStd>>), (<<NodeStd, NodeGPU>>)>>

\* The configuration files the program can be started with.  decodes says
\* whether json.Decode accepts the text as a Config.
MkConfig(decodes, entries, pricing) ==
    [decodes |-> decodes, Mapper |-> entries, Pricing |-> pricing]

GoodConfig ==
    MkConfig(TRUE,
             <<Mapping("unknown", "pod", Path(<<"Pod", "ObjectMeta", "Name">>)),
               Mapping("", "kind", Path(<<"Kind">>))>>,
             <<RegionEntry, TestEntry>>)
MalformedConfig ==
    MkConfig(FALSE, <<>>, <<>>)
BadKeyConfig ==
    MkConfig(TRUE, <<Mapping("unknown", "", Path(<<"Pod", "ObjectMeta", "Name">>))>>, <<TestEntry>>)
BadPathConfig ==
    MkConfig(TRUE, <<Mapping("unknown", "pod", Bad)>>, <<TestEntry>>)
\* A rule that cannot be evaluated on the items that have a pod.
BadIndexConfig ==
    MkConfig(TRUE,
             <<Mapping("unknown", "pod", Index(<<"Pod", "ObjectMeta", "Name">>)),
               Mapping("", "kind", Path(<<"Kind">>))>>,
             <<TestEntry>>)
Configs == {GoodConfig, MalformedConfig, BadKeyConfig, BadPathConfig, BadIndexConfig}

\* NewConfigFromReader(r), coster.go:588-596: the Config, or the error of
\* json.Decode.
NewConfigFromReader(text) ==
    IF text.decodes THEN [config |-> text, err |-> "nil"]
    ELSE [config |-> MalformedConfig, err |-> "decode"]

\* RunningPodFilter, filters.go.
RunningPodFilter(p) ==
    p.Phase = "Running"

\* c.podFilters of NewKubernetesCoster, coster.go:380-400.
podFilters(p) ==
    RunningPodFilter(p)

\* applyPodFilters(pods), coster.go:433-442: the pods every filter accepts,
\* in order.
applyPodFilters(ps) ==
    SelectSeq(ps, podFilters)

\* c.strategies of NewKubernetesCoster, in order.
Strategies == <<"GPUPricingStrategy", "CPUPricingStrategy", "MemoryPricingStrategy",
                "WeightedPricingStrategy", "NodePricingStrategy">>

\* s.Calculate(tbl, dur, ps, ns) of the strategy named s.
Calculate(s, tbl, dur, ps, ns) ==
    CASE s = "GPUPricingStrategy" -> GPUPricingStrategy(tbl, dur, ps, ns)
      [] s = "CPUPricingStrategy" -> CPUPricingStrategy(tbl, dur, ps, ns)
      [] s = "MemoryPricingStrategy" -> MemoryPricingStrategy(tbl, dur, ps, ns)
      [] s = "WeightedPricingStrategy" -> WeightedPricingStrategy(tbl, dur, ps, ns)
      [] s = "NodePricingStrategy" -> NodePricingStrategy(tbl, dur, ps, ns)

\* The CostItem as the JSONPath of a mapping rule sees it: a nil Pod or Node
\* has no fields.
ItemObject(ci) ==
    LET meta(o) == IF o.Name = "" THEN Inner(<<>>)
                   ELSE Inner([ObjectMeta |-> Inner([Name |-> Leaf(o.Name)])])
    IN  Inner([Kind |-> Leaf(ci.Kind), Strategy |-> Leaf(ci.Strategy),
               Pod |-> meta(ci.Pod), Node |-> meta(ci.Node)])

\* The CostData CalculateAndEmit hands every exporter for item ci,
\* coster.go:500-513; the time stamp is left out.
CostDataOf(ci, dims) ==
    [Kind |-> ci.Kind, Strategy |-> ci.Strategy, Value |-> ci.Value, Dimensions |-> dims]

\* Mutant of EmitFrom: a mapping error ends the loop over the items.
RECURSIVE EmitFrom_StopAtError(_, _, _)
EmitFrom_StopAtError(entries, items, i) ==
    IF i > Len(items) THEN <<>>
    ELSE LET dims == MapData(entries, ItemObject(items[i]))
         IN  IF dims.err # "nil" THEN <<>>
             ELSE <<CostDataOf(items[i], dims.res)>> \o EmitFrom_StopAtError(entries, items, i + 1)

\* The loop over the cost items of CalculateAndEmit from item i on: what one
\* exporter receives.  An item the mapper fails on is skipped.
RECURSIVE EmitFrom(_, _, _)
EmitFrom(entries, items, i) ==
    IF i > Len(items) THEN <<>>
    ELSE LET dims == MapData(entries, ItemObject(items[i]))
         IN  IF dims.err # "nil" THEN EmitFrom(entries, items, i + 1)
             ELSE <<CostDataOf(items[i], dims.res)>> \o EmitFrom(entries, items, i + 1)

\* The number of CostData the exporters 1..e have been handed.
RECURSIVE TotalReceived(_, _)
TotalReceived(rcv, e) ==
    IF e = 0 THEN 0 ELSE Len(rcv[e]) + TotalReceived(rcv, e - 1)

\* No cycle has finished yet.
NoCycle == [first |-> FALSE, elapsed |-> 0, err |-> "nil", status |-> "", exported |-> 0,
            billed |-> 0, origin |-> 0]

\* Mutant of Sub: every cycle after the first bills the configured interval.
Sub_Configured(t, last) ==
    IF t > last THEN collectInterval ELSE (t - last) * collectInterval

\* t.Sub(c.lastRun), coster.go:472: readings of the clock are whole
\* collectIntervals apart.
Sub(t, last) ==
    (t - last) * collectInterval

\* Mutant of Senseless: only a negative interval is refused.
Senseless_OnlyNegative(interval) ==
    interval < 0

\* interval <= 0 of calculate, coster.go:473.
Senseless(interval) ==
    interval <= 0

\* Mutant of AtSelect: a tick is taken wherever the loop is.
AtSelect_Anywhere ==
    TRUE

\* The case <-c.ticker.C of the loop can be taken: the loop is at its select.
AtSelect ==
    loopPc = "select"

\* Mutant of StrategyPods: every strategy lists the pods itself.
StrategyPods_Relisted ==
    applyPodFilters(PodCaches[cluster])

\* The pods a strategy is called with: those calculate listed.
StrategyPods ==
    cyPods

\* The nodes a strategy is called with: those calculate listed.
StrategyNodes ==
    cyNodes

\* ---- startup

\* The collect command up to coster.Run, main.go:123-157: the configuration
\* is decoded, the tag keys of the mapper are built, the coster is made and
\* run.  kingpin.FatalIfError ends the program.
Startup ==
    /\ mainPc = "startup"
    /\ LET cf == NewConfigFromReader(config)
       IN  IF cf.err # "nil" \/ TagKeys(cf.config.Mapper).err # "nil"
           THEN /\ mainPc' = "fatal"
                /\ UNCHANGED taskPc
           ELSE /\ mainPc' = "run"
                /\ taskPc' = [t \in Tasks |-> "run"]
    /\ UNCHANGED <<config, ctxCancelled, groupErr, loopPc, tickC,
                   lastRun, received, lastCycle, finished, taken, cluster, cycleVars,
                   notRunVars>>

\* The context the caller gave Run is cancelled; the context of Run is its
\* child.
CancelCaller ==
    /\ mainPc = "run"
    /\ ~ctxCancelled
    /\ ctxCancelled' = TRUE
    /\ UNCHANGED <<mainPc, config, taskPc, groupErr, loopPc, tickC, lastRun, received,
                   lastCycle, finished, taken, cluster, cycleVars, notRunVars>>

\* Mutant of Return: the goroutine returns without cancelling the context.
Return_NoCancel(t, err) ==
    /\ taskPc' = [taskPc EXCEPT ![t] = "ret"]
    /\ groupErr' = IF groupErr = "nil" THEN err ELSE groupErr
    /\ UNCHANGED ctxCancelled

\* A goroutine of Run returns err: its deferred done() cancels the context,
\* and the errgroup keeps the first error that is not nil.
Return(t, err) ==
    /\ taskPc' = [taskPc EXCEPT ![t] = "ret"]
    /\ groupErr' = IF groupErr = "nil" THEN err ELSE groupErr
    /\ ctxCancelled' = TRUE

\* podLister.Run / nodeLister.Run, coster.go:527-541: the informer runs
\* until the stop channel is closed, then reports whether its cache synced.
ListerReturn ==
    /\ \E t \in {TaskPodLister, TaskNodeLister}, err \in {"nil", ErrCacheSyncFailed} :
          /\ taskPc[t] = "run"
          /\ ctxCancelled
          /\ Return(t, err)
    /\ UNCHANGED <<mainPc, config, loopPc, tickC, lastRun, received,
                   lastCycle, finished, taken, cluster, cycleVars, notRunVars>>

\* s.ListenAndServe() fails, coster.go:543-565.
ServerFail ==
    /\ taskPc[TaskServer] = "run"
    /\ Return(TaskServer, ErrListen)
    /\ UNCHANGED <<mainPc, config, loopPc, tickC, lastRun, received,
                   lastCycle, finished, taken, cluster, cycleVars, notRunVars>>

\* The helper goroutine sees the context done and shuts the server down:
\* ListenAndServe returns http.ErrServerClosed.
ServerShutdown ==
    /\ taskPc[TaskServer] = "run"
    /\ ctxCancelled
    /\ Return(TaskServer, ErrServerClosed)
    /\ UNCHANGED <<mainPc, config, loopPc, tickC, lastRun, received,
                   lastCycle, finished, taken, cluster, cycleVars, notRunVars>>

\* The ticker fires and c.ticker.C is empty: the tick is buffered.  (A tick
\* that finds the channel full is dropped and changes nothing.)
TickerFires ==
    /\ mainPc = "run"
    /\ ~tickC
    /\ taken < MaxTicks
    /\ tickC' = TRUE
    /\ UNCHANGED <<mainPc, config, ctxCancelled, taskPc, groupErr,
                   loopPc, lastRun, received, lastCycle, finished, taken, cluster, cycleVars,
                   notRunVars>>

\* The informers see the cluster change: the caches move on.
ClusterChange ==
    /\ mainPc = "run"
    /\ cluster' = (cluster % Len(PodCaches)) + 1
    /\ UNCHANGED <<mainPc, config, ctxCancelled, taskPc, groupErr,
                   loopPc, tickC, lastRun, received, lastCycle, finished, taken, cycleVars,
                   notRunVars>>

\* ---- the calculation loop, coster.go:567-583

\* case <-c.ticker.C: CalculateAndEmit is entered.
TakeTick ==
    /\ taskPc[TaskLoop] = "run"
    /\ AtSelect
    /\ tickC
    /\ tickC' = FALSE
    /\ loopPc' = "pods"
    /\ taken' = taken + 1
    /\ received' = [e \in DOMAIN received |-> <<>>]
    /\ UNCHANGED <<mainPc, config, ctxCancelled, taskPc, groupErr,
                   lastRun, lastCycle, finished, cluster, cycleVars, notRunVars>>

\* case <-ctx.Done(): the loop returns nil.
LoopExit ==
    /\ taskPc[TaskLoop] = "run"
    /\ loopPc = "select"
    /\ ctxCancelled
    /\ Return(TaskLoop, "nil")
    /\ UNCHANGED <<mainPc, config, loopPc, tickC, lastRun, received,
                   lastCycle, finished, taken, cluster, cycleVars, notRunVars>>

\* CalculateAndEmit returns: its locals and those of calculate are gone and
\* the loop is back at its select.
EndCycle ==
    /\ loopPc' = "select"
    /\ cyPods' = <<>>
    /\ cyNodes' = <<>>
    /\ cyInterval' = 0
    /\ cyFirst' = FALSE
    /\ cis' = <<>>
    /\ strategyIdx' = 1
    /\ calls' = <<>>
    /\ reads' = [pods |-> <<>>, nodes |-> <<>>]

\* c.podLister.List() and applyPodFilters, coster.go:447-452.  List reads the
\* informer's cache and returns no error.
ListPods ==
    /\ taskPc[TaskLoop] = "run"
    /\ loopPc = "pods"
    /\ reads' = [reads EXCEPT !.pods = Append(@, PodCaches[cluster])]
    /\ cyPods' = applyPodFilters(PodCaches[cluster])
    /\ loopPc' = "nodes"
    /\ UNCHANGED <<mainPc, config, ctxCancelled, taskPc, groupErr,
                   tickC, lastRun, received, lastCycle, finished, taken, cluster,
                   cyNodes, cyInterval, cyFirst, cis, strategyIdx, calls, notRunVars>>

\* c.nodeLister.List(), coster.go:454-457.
ListNodes ==
    /\ taskPc[TaskLoop] = "run"
    /\ loopPc = "nodes"
    /\ reads' = [reads EXCEPT !.nodes = Append(@, NodeCaches[cluster])]
    /\ cyNodes' = NodeCaches[cluster]
    /\ loopPc' = "interval"
    /\ UNCHANGED <<mainPc, config, ctxCancelled, taskPc, groupErr,
                   tickC, lastRun, received, lastCycle, finished, taken, cluster,
                   cyPods, cyInterval, cyFirst, cis, strategyIdx, calls, notRunVars>>

\* The interval of the cycle, coster.go:459-480: the configured interval on
\* the first run, else the time since the last run, which the clock may
\* report as zero or negative; then calculate returns ErrSenselessInterval,
\* and CalculateAndEmit records the cycle as failed and returns the error,
\* which the loop only logs (coster.go:489-495, 573-576).  t is time.Now().
Interval ==
    /\ taskPc[TaskLoop] = "run"
    /\ loopPc = "interval"
    /\ \E t \in 1..MaxTime :
          IF lastRun = 0
          THEN /\ cyInterval' = collectInterval
               /\ cyFirst' = TRUE
               /\ lastRun' = t
               /\ loopPc' = "strategies"
               /\ UNCHANGED <<lastCycle, finished, cyPods, cyNodes, cis, strategyIdx,
                              calls, reads>>
          ELSE IF Senseless(Sub(t, lastRun))
          THEN /\ lastCycle' = [first |-> FALSE,
                                elapsed |-> Sub(t, lastRun),
                                err |-> ErrSenselessInterval,
                                status |-> tagStatusFailed,
                                exported |-> TotalReceived(received, NumExporters),
                                billed |-> lastCycle.billed,
                                origin |-> lastCycle.origin]
               /\ finished' = finished + 1
               /\ EndCycle
               /\ UNCHANGED lastRun
          ELSE /\ cyInterval' = Sub(t, lastRun)
               /\ cyFirst' = FALSE
               /\ lastRun' = t
               /\ loopPc' = "strategies"
               /\ UNCHANGED <<lastCycle, finished, cyPods, cyNodes, cis, strategyIdx,
                              calls, reads>>
    /\ UNCHANGED <<mainPc, config, ctxCancelled, taskPc, groupErr,
                   tickC, received, taken, cluster, notRunVars>>

\* The calls the loop can make of a strategy: any strategy, the table of a
\* configuration, a whole number of intervals, and a reading of each cache.
StrategyCalls ==
    [strategy : {Strategies[i] : i \in DOMAIN Strategies},
     table : {cf.Pricing : cf \in Configs},
     duration : {d * collectInterval : d \in 0..MaxTime},
     pods : {applyPodFilters(PodCaches[c]) : c \in DOMAIN PodCaches},
     nodes : {NodeCaches[c] : c \in DOMAIN NodeCaches}]

\* What each of these calls returns: Calculate, as an explicit function (the
\* @@ makes TLC compute every value once instead of at every step).
Calculated ==
    [c \in StrategyCalls |->
        Calculate(c.strategy, c.table, c.duration, c.pods, c.nodes)] @@ <<>>

\* One turn of the loop over c.strategies, coster.go:482-484.
CallStrategy ==
    /\ taskPc[TaskLoop] = "run"
    /\ loopPc = "strategies"
    /\ cis' = cis \o Calculated[[strategy |-> Strategies[strategyIdx],
                                 table |-> config.Pricing, duration |-> cyInterval,
                                 pods |-> StrategyPods, nodes |-> StrategyNodes]]
    /\ calls' = Append(calls, [strategy |-> Strategies[strategyIdx],
                               table |-> config.Pricing, duration |-> cyInterval,
                               pods |-> StrategyPods, nodes |-> StrategyNodes])
    /\ IF strategyIdx = Len(Strategies)
       THEN loopPc' = "emit" /\ UNCHANGED strategyIdx
       ELSE strategyIdx' = strategyIdx + 1 /\ UNCHANGED loopPc
    /\ UNCHANGED <<mainPc, config, ctxCancelled, taskPc, groupErr,
                   tickC, lastRun, received, lastCycle, finished, taken, cluster,
                   cyPods, cyNodes, cyInterval, cyFirst, reads, notRunVars>>

\* The export of CalculateAndEmit, coster.go:497-519: every item goes to
\* every exporter, and the cycle is recorded as succeeded.
Emit ==
    /\ taskPc[TaskLoop] = "run"
    /\ loopPc = "emit"
    /\ LET out == EmitFrom(config.Mapper, cis, 1)
       IN  /\ received' = [e \in DOMAIN received |-> received[e] \o out]
           /\ lastCycle' = [first |-> cyFirst, elapsed |-> cyInterval,
                            err |-> "nil", status |-> tagStatusSucceeded,
                            exported |-> TotalReceived(received', NumExporters),
                            billed |-> lastCycle.billed + cyInterval,
                            origin |-> IF cyFirst THEN lastRun ELSE lastCycle.origin]
           /\ finished' = finished + 1
    /\ EndCycle
    /\ UNCHANGED <<mainPc, config, ctxCancelled, taskPc, groupErr,
                   tickC, lastRun, taken, cluster, notRunVars>>

\* g.Wait() returns once the four goroutines have: Run returns.
RunReturns ==
    /\ mainPc = "run"
    /\ \A t \in Tasks : taskPc[t] = "ret"
    /\ mainPc' = "returned"
    /\ UNCHANGED <<config, ctxCancelled, taskPc, groupErr, loopPc,
                   tickC, lastRun, received, lastCycle, finished, taken, cluster, cycleVars,
                   notRunVars>>

\* The coster as constructed, started with configuration cf.
Constructed(cf) ==
    /\ mainPc = "startup"
    /\ config = cf
    /\ ctxCancelled = FALSE
    /\ taskPc = [t \in Tasks |-> "idle"]
    /\ groupErr = "nil"
    /\ loopPc = "select"
    /\ tickC = FALSE
    /\ lastRun = 0
    /\ cluster = 1
    /\ cyPods = <<>>
    /\ cyNodes = <<>>
    /\ cyInterval = 0
    /\ cyFirst = FALSE
    /\ cis = <<>>
    /\ strategyIdx = 1
    /\ received = [e \in 1..NumExporters |-> <<>>]
    /\ calls = <<>>
    /\ reads = [pods |-> <<>>, nodes |-> <<>>]
    /\ lastCycle = NoCycle
    /\ finished = 0
    /\ taken = 0

\* The program has not been started.
IdleRun ==
    Constructed(MalformedConfig)

InitRun ==
    \E cf \in Configs : Constructed(cf)

NextRun ==
    \/ Startup
    \/ CancelCaller
    \/ ListerReturn
    \/ ServerFail
    \/ ServerShutdown
    \/ TickerFires
    \/ ClusterChange
    \/ TakeTick
    \/ LoopExit
    \/ ListPods
    \/ ListNodes
    \/ Interval
    \/ CallStrategy
    \/ Emit
    \/ RunReturns

----------------------------------------------------------------------------
(* The specifications: each runs one part of the package and leaves the     *)
(* others as constructed.                                                   *)

InitSpecBuf ==
    InitBuf /\ IdleTable /\ IdleCost /\ IdleStrat /\ IdleMap /\ IdleRun
SpecBuf ==
    InitSpecBuf /\ [][NextBuf]_vars

InitSpecTable ==
    InitTable /\ InitBuf /\ IdleCost /\ IdleStrat /\ IdleMap /\ IdleRun
SpecTable ==
    InitSpecTable /\ [][NextTable]_vars

InitSpecCost ==
    InitCost /\ InitBuf /\ IdleTable /\ IdleStrat /\ IdleMap /\ IdleRun
SpecCost ==
    InitSpecCost /\ [][NextCost]_vars

InitSpecStrat ==
    InitStrat /\ InitBuf /\ IdleTable /\ IdleCost /\ IdleMap /\ IdleRun
SpecStrat ==
    InitSpecStrat /\ [][NextStrat]_vars

InitSpecMap ==
    InitMap /\ InitBuf /\ IdleTable /\ IdleCost /\ IdleStrat /\ IdleRun
SpecMap ==
    InitSpecMap /\ [][NextMap]_vars

InitSpecRun ==
    InitRun /\ InitBuf /\ IdleTable /\ IdleCost /\ IdleStrat /\ IdleMap
SpecRun ==
    InitSpecRun /\ [][NextRun]_vars

\* Run with the cluster at rest.
NextRunFair ==
    \/ Startup
    \/ CancelCaller
    \/ ListerReturn
    \/ ServerFail
    \/ ServerShutdown
    \/ TickerFires
    \/ TakeTick
    \/ LoopExit
    \/ ListPods
    \/ ListNodes
    \/ Interval
    \/ CallStrategy
    \/ Emit
    \/ RunReturns

\* A step of the calculation loop inside a cycle, outside the loop over the
\* strategies.
CycleStep ==
    ListPods \/ ListNodes \/ Interval \/ Emit

\* The control flow of CallStrategy: the loop over c.strategies moves on.
StrategyStep ==
    /\ taskPc[TaskLoop] = "run"
    /\ loopPc = "strategies"
    /\ IF strategyIdx = Len(Strategies)
       THEN loopPc' = "emit" /\ UNCHANGED strategyIdx
       ELSE strategyIdx' = strategyIdx + 1 /\ UNCHANGED loopPc

\* The scheduler runs every goroutine that can take a step, and a select
\* whose cases are both ready picks one at random, so the loop that is at its
\* select again and again with the context done leaves.
FairRun ==
    /\ WF_vars(ListerReturn)
    /\ WF_vars(ServerShutdown)
    /\ WF_vars(CycleStep)
    /\ WF_<<loopPc, strategyIdx>>(StrategyStep)
    /\ WF_vars(RunReturns)
    /\ SF_vars(LoopExit)
InitSpecRunFair ==
    InitRun /\ InitBuf /\ IdleTable /\ IdleCost /\ IdleStrat /\ IdleMap
SpecRunFair ==
    InitSpecRunFair /\ [][NextRunFair]_vars /\ FairRun

\* The buffering exporter under a fair scheduler.  The ticker fires while
\* there is something to flush; every goroutine that can take a step takes
\* it; sync.Mutex hands the lock to a goroutine that keeps waiting for it
\* (starvation mode); and a select whose cases are both ready picks one at
\* random, so the flush loop that is at its select again and again with the
\* context done returns.  Progress does not depend on what a record holds,
\* so the producers export the records of two keys, two of them under one.
FairInputs ==
    { c \in CostDataInputs : c.Kind = "weighted" /\ c.Strategy = "WeightedPricingStrategy"
                                /\ c.Dimensions # DimsJoined }
NextBufFair ==
    \/ \E p \in Producers : Call(p) /\ cd'[p] \in FairInputs
    \/ \E p \in Producers : Lock(p)
    \/ \E p \in Producers : Read(p)
    \/ \E p \in Producers : Write(p)
    \/ \E p \in Producers : Unlock(p)
    \/ Cancel
    \/ TickerFlush
    \/ FlusherExit
    \/ FlushLock
    \/ FlushForward
    \/ FlushNextReturn
    \/ FlushReset
    \/ FlushUnlock
FairBuf ==
    /\ WF_vars(\E p \in Producers : Read(p) \/ Write(p) \/ Unlock(p))
    /\ WF_vars(TickerFlush \/ FlushForward \/ FlushNextReturn \/ FlushReset \/ FlushUnlock)
    /\ SF_vars(FlushLock)
    /\ SF_vars(FlusherExit)
InitSpecBufFair ==
    InitBuf /\ IdleTable /\ IdleCost /\ IdleStrat /\ IdleMap /\ IdleRun
SpecBufFair ==
    InitSpecBufFair /\ [][NextBufFair]_vars /\ FairBuf

----------------------------------------------------------------------------
(* Properties of the BufferingCostExporter.                                *)

\* The goroutines inside the section guarded by bce.mux.
InCS(p) == pc[p] \in {"read", "write", "unlock"}
FlushInCS == fpc \in {"range", "next", "unlock"}

\* The keys, the summed Value and the last record stored since the last flush.
HistKeys == {hist[i].key : i \in DOMAIN hist}
HistOf(key0) == SelectSeq(hist, LAMBDA h : h.key = key0)
HistSum(key0) == SumValues([i \in DOMAIN HistOf(key0) |-> HistOf(key0)[i].rec])
HistLast(key0) == HistOf(key0)[Len(HistOf(key0))].rec

\* C1: ExportCost and flush are mutually exclusive critical sections under the
\* exporter's one lock (at most one goroutine is between Lock and Unlock), and
\* no update is lost: the Value buffered under a key is the sum of the Values of
\* exactly the records stored under that key since the last flush.
C1_MutualExclusion ==
    /\ Cardinality({p \in Producers : InCS(p)}) + (IF FlushInCS THEN 1 ELSE 0) <= 1
    /\ \A p \in Producers : InCS(p) => mux = HeldBy(p)
    /\ FlushInCS => mux = Flusher
    /\ DOMAIN buffer = HistKeys
    /\ \A key0 \in HistKeys : buffer[key0].Value = HistSum(key0)

\* C1 witness: one producer is inside ExportCost's critical section while the
\* other producer and the flush goroutine both wait for the lock.
C1_Witness ==
    \E p, q \in Producers :
        /\ p # q
        /\ pc[p] = "write"
        /\ pc[q] = "lock"
        /\ fpc = "lock"

\* C2: with no flush in between, the buffer holds exactly one record per key of
\* the records exported; it is the most recently exported record under that key
\* (so its EndTime; the first record is stored as it is) with Value the sum of
\* the Values exported under the key; and the key does not depend on the order
\* in which the dimensions are enumerated.
C2_MergePerKey ==
    /\ DOMAIN buffer = HistKeys
    /\ \A key0 \in HistKeys :
         buffer[key0] = [HistLast(key0) EXCEPT !.Value = HistSum(key0)]
    /\ \A i \in DOMAIN hist :
         \A order \in Perms(DOMAIN hist[i].rec.Dimensions) :
             key(hist[i].rec, order) = hist[i].key

\* C2 witness: values 5 then 3 under one key are merged into one record of
\* Value 8 carrying the EndTime of the second record, which is the earlier time.
C2_Witness ==
    /\ Len(hist) = 2
    /\ hist[1].key = hist[2].key
    /\ hist[2].rec.EndTime < hist[1].rec.EndTime
    /\ Cardinality(DOMAIN hist[1].rec.Dimensions) = 2
    /\ DOMAIN buffer = {hist[1].key}
    /\ buffer[hist[1].key].Value = 8
    /\ buffer[hist[1].key].EndTime = hist[2].rec.EndTime

\* Two records differ in kind, in strategy or in a dimension name or value.
Differ(c1, c2) ==
    \/ c1.Kind # c2.Kind
    \/ c1.Strategy # c2.Strategy
    \/ c1.Dimensions # c2.Dimensions

\* C3: records that differ in kind, strategy or any dimension name or value get
\* different keys and so are never merged, whatever bytes the dimension names
\* and values contain.
C3_DistinctNeverMerged ==
    \A i, j \in DOMAIN hist :
        Differ(hist[i].rec, hist[j].rec) => hist[i].key # hist[j].key

\* C4: a flush forwards every record that was buffered when it began exactly
\* once to the downstream exporter and leaves the buffer empty; what a flush
\* forwards is only what was stored since the previous flush.
C4_FlushForwardsOnce ==
    LET F == {i \in DOMAIN downstream : downstream[i].flush = flushes + 1}
        Sent(key0) == {i \in F : downstream[i].key = key0}
    IN  /\ fpc \in {"range", "next"} =>
             /\ buffer = snap
             /\ \A key0 \in DOMAIN snap : snap[key0].Value = HistSum(key0)
             /\ \A i \in F : /\ downstream[i].key \in DOMAIN snap
                             /\ downstream[i].rec = snap[downstream[i].key]
             /\ \A key0 \in DOMAIN snap :
                    Cardinality(Sent(key0)) = (IF key0 \in pending THEN 0 ELSE 1)
        /\ fpc = "unlock" =>
             /\ buffer = EmptyBuffer
             /\ Cardinality(F) = Cardinality(DOMAIN snap)
             /\ \A key0 \in DOMAIN snap :
                    /\ Cardinality(Sent(key0)) = 1
                    /\ \A i \in Sent(key0) : downstream[i].rec = snap[key0]

\* C4 witness: the second flush has forwarded its record and emptied the
\* buffer, after the first flush forwarded another one.
C4_Witness ==
    /\ fpc = "unlock"
    /\ flushes = 1
    /\ snap # EmptyBuffer
    /\ \E i \in DOMAIN downstream : downstream[i].flush = 1
    /\ \E i \in DOMAIN downstream : downstream[i].flush = 2

\* C5: while a call to the downstream exporter's ExportCost is in progress the
\* flush goroutine does not hold the lock, so a producer waiting in ExportCost
\* can take it.
C5_ForwardOutsideLock ==
    fpc = "next" =>
        /\ mux # Flusher
        /\ \A p \in Producers : pc[p] = "lock" => ENABLED Lock(p)

\* The records the downstream exporter was handed under a key by the flushes
\* that have emptied the buffer (a running flush that has not yet replaced
\* the buffer still holds what it has handed on).
ForwardedOf(key0) ==
    SelectSeq(downstream,
              LAMBDA d : d.key = key0 /\ (d.flush <= flushes \/ fpc = "unlock"))
ForwardedSum(key0) ==
    SumValues([i \in DOMAIN ForwardedOf(key0) |-> ForwardedOf(key0)[i].rec])

\* C26: for every key, in every interleaving of ExportCost calls and flushes,
\* the sum of the Values ingested under the key is the sum of the Values
\* forwarded to the downstream exporter under it plus the Value buffered
\* under it: buffering neither loses nor double-counts value.
C26_ValueConserved ==
    /\ DOMAIN buffer \subseteq DOMAIN inSum
    /\ \A i \in DOMAIN downstream : downstream[i].key \in DOMAIN inSum
    /\ \A key0 \in DOMAIN inSum :
          inSum[key0] = ForwardedSum(key0)
                          + (IF key0 \in DOMAIN buffer THEN buffer[key0].Value ELSE 0)

\* A record of Value 5 was forwarded by a flush and a record of Value 3 has
\* been ingested under the same key since.
C26_Witness ==
    \E key0 \in DOMAIN buffer :
        /\ fpc = "select"
        /\ inSum[key0] = 8
        /\ ForwardedSum(key0) = 5
        /\ buffer[key0].Value = 3

\* C22: when the publish of a record forwarded by a flush fails, the failure
\* is counted in the publish-error metric and the record is dropped: it is
\* not put back into the buffer (which holds what was stored since the last
\* flush and nothing else), it is not handed to the downstream exporter
\* again, and a flush leaves the buffer empty whatever became of its
\* records.
C22_FailedPublishIsDropped ==
    /\ pubsubErrors = Cardinality({i \in DOMAIN downstream : downstream[i].result = "failed"})
    /\ DOMAIN buffer = HistKeys
    /\ \A key0 \in DOMAIN buffer : buffer[key0].Value = HistSum(key0)
    /\ \A i, j \in DOMAIN downstream :
          (downstream[i].key = downstream[j].key /\ downstream[i].flush = downstream[j].flush)
              => i = j
    /\ fpc = "unlock" => buffer = EmptyBuffer

\* The publish of a record of Value 5 has failed and been counted; a record
\* of Value 3 stored under the same key since is buffered alone, and the
\* flush that forwarded the first record left the buffer empty.
C22_Witness ==
    /\ Len(downstream) = 1
    /\ downstream[1].result = "failed"
    /\ downstream[1].rec.Value = 5
    /\ pubsubErrors = 1
    /\ flushes = 1
    /\ downstream[1].key \in DOMAIN buffer
    /\ buffer[downstream[1].key].Value = 3

\* Everything the downstream exporter has been handed under a key.
HandedOf(key0) ==
    SelectSeq(downstream, LAMBDA d : d.key = key0)
HandedSum(key0) ==
    SumValues([i \in DOMAIN HandedOf(key0) |-> HandedOf(key0)[i].rec])

\* Some Value that ExportCost has stored has not been handed on.
Unforwarded ==
    \E key0 \in DOMAIN inSum : inSum[key0] # HandedSum(key0)

\* C27: every record accepted by ExportCost is eventually forwarded to the
\* downstream exporter as part of a merged record, provided the ticker keeps
\* firing, the flush loop is scheduled fairly and the context of the exporter
\* is not cancelled.
C27_AcceptedIsEventuallyForwarded ==
    Unforwarded ~> (~Unforwarded \/ ctxDone)

\* Two records stored under one key have been forwarded as one record of
\* their summed Value, the context not being cancelled.
C27_Witness ==
    /\ ~ctxDone
    /\ ~Unforwarded
    /\ \E i \in DOMAIN downstream :
          /\ downstream[i].rec.Value = 8
          /\ inSum[downstream[i].key] = 8

\* C28: once the context given to NewBufferingCostExporter is cancelled the
\* flush loop eventually returns, and it returns without a last flush: from
\* the step that leaves the loop on, the buffer is not emptied and nothing is
\* handed to the downstream exporter, so what is buffered then and what is
\* ingested later is never forwarded.
C28_NoFlushAfterCancel ==
    /\ ctxDone ~> (fpc = "exited")
    /\ [][(fpc = "exited" \/ fpc' = "exited") =>
             /\ fpc' = "exited"
             /\ Len(downstream') = Len(downstream)
             /\ DOMAIN buffer \subseteq DOMAIN buffer'
             /\ mux' # Flusher]_vars

\* The flush loop has returned with a record in the buffer, and a record
\* ingested after that is in the buffer too; neither has been forwarded.
C28_Witness ==
    /\ fpc = "exited"
    /\ downstream = <<>>
    /\ exports = 2
    /\ \A p \in Producers : pc[p] = "idle"
    /\ \E key0 \in DOMAIN buffer : buffer[key0].Value = 8

----------------------------------------------------------------------------
(* Properties of the pricing table.                                        *)

\* Every key/value pair of the entry's labels is present in ls.
SubsetOf(els, ls) ==
    \A kk \in DOMAIN els : kk \in DOMAIN ls /\ ls[kk] = els[kk]

\* C6: FindByLabels returns the entry of lowest index whose Match holds, even
\* when a later entry matches with more labels, and returns (nil,
\* ErrNoCostEntry) exactly when no entry matches (an empty table included).
C6_FirstMatchWins ==
    tblResult.op = "FindByLabels" =>
        LET M == {i \in DOMAIN table : EntryMatch(table[i], labels)}
            r == tblResult.res
        IN  /\ M # {} => /\ r.err = "nil"
                         /\ r.entry \in M
                         /\ \A j \in M : r.entry <= j
            /\ M = {} => r = NotFound
            /\ r.err = "ErrNoCostEntry" <=> M = {}

\* C6 witness: both entries match, the second with a strict superset of the
\* first one's labels, and the first is returned.
C6_Witness ==
    /\ tblResult.op = "FindByLabels"
    /\ Len(table) = 2
    /\ EntryMatch(table[1], labels)
    /\ EntryMatch(table[2], labels)
    /\ DOMAIN table[1].Labels # {}
    /\ SubsetOf(table[1].Labels, table[2].Labels)
    /\ DOMAIN table[1].Labels # DOMAIN table[2].Labels
    /\ tblResult.res = Found(1)

\* C7: Match(L) is true if and only if every key/value pair of the entry's
\* labels is in L with the same value; an entry without labels matches every
\* L, the empty one included.
C7_MatchIsSubset ==
    tblResult.op = "Match" =>
        /\ tblResult.res = SubsetOf(table[tblResult.i].Labels, labels)
        /\ DOMAIN table[tblResult.i].Labels = {} => tblResult.res = TRUE

\* C7 witness: an entry with two labels is matched against labels that hold
\* one of them with another value, and Match returns false.
C7_Witness ==
    /\ tblResult.op = "Match"
    /\ DOMAIN table[tblResult.i].Labels = LabelKeys
    /\ DOMAIN labels = LabelKeys
    /\ \E kk \in LabelKeys : labels[kk] # table[tblResult.i].Labels[kk]
    /\ tblResult.res = FALSE

----------------------------------------------------------------------------
(* Properties of the rate conversions.                                     *)

\* floor(q * d * R / 3600) for the rate R = r.num / 2^r.shift, in exact
\* integer arithmetic.
ExactCost(q, d, r) ==
    BigToInt(BigDivSmall(BigShr(BigMul(BigMul(BigFromInt(q), BigFromInt(d)), BigFromInt(r.num)),
                                r.shift),
                         Hour).q)

\* The rate the last call priced with.
RateOf(op) ==
    IF op = "CPUCostMicroCents" THEN costEntry.HourlyMilliCPUCostMicroCents
    ELSE IF op = "MemoryCostMicroCents" THEN costEntry.HourlyMemoryByteCostMicroCents
    ELSE costEntry.HourlyGPUCostMicroCents

\* C8: each of CPUCost, MemoryCost and GPUCost returns the quantity times the
\* duration as a fraction of one hour times the hourly rate, truncated toward
\* zero to an integer.
C8_CostIsTruncatedProduct ==
    costResult.op # "none" =>
        costResult.value = ExactCost(costQty, costDur, RateOf(costResult.op))

----------------------------------------------------------------------------
(* Properties of the pricing strategies.                                   *)

\* The sum of the Values of the items from i on whose pod runs on node name.
RECURSIVE SumItemsOn(_, _, _)
SumItemsOn(items, name, i) ==
    IF i > Len(items) THEN 0
    ELSE (IF items[i].Pod.NodeName = name THEN items[i].Value ELSE 0)
         + SumItemsOn(items, name, i + 1)

\* The sum over the pods from i on that run on node name of their request
\* of kind.
RECURSIVE SumRequests(_, _, _, _)
SumRequests(ps, name, kind, i) ==
    IF i > Len(ps) THEN 0
    ELSE (IF ps[i].NodeName = name THEN sumPodResource(ps[i], kind) ELSE 0)
         + SumRequests(ps, name, kind, i + 1)

\* Node i has a pricing entry and at least one pod scheduled on it.
PricedAndUsed(i) ==
    /\ FindByLabels(stTable, nodes[i].Labels).err = "nil"
    /\ \E j \in DOMAIN pods : pods[j].NodeName = nodes[i].Name

\* C9: under WeightedPricingStrategy, for every node that has a pricing entry
\* and at least one scheduled pod, the values attributed to the pods on that
\* node sum to the node's full-capacity cost for the same duration.
C9_WeightedSumsToNodeCost ==
    stResult.op = "WeightedPricingStrategy" =>
        \A i \in DOMAIN nodes :
            PricedAndUsed(i) =>
                SumItemsOn(stResult.items, nodes[i].Name, 1)
                    = NodeCost(stTable[FindByLabels(stTable, nodes[i].Labels).entry],
                               duration, nodes[i])

\* C10: in the map buildNormalizedNodeResourceMap returns, the usage of each
\* of cpu, memory and gpu of a node is the summed request of the pods
\* scheduled on it, or the node's capacity when that sum is zero, for each
\* resource independently of the other two.
C10_UsageDefaultsToCapacity ==
    stResult.op = "buildNormalizedNodeResourceMap" =>
        /\ DOMAIN stResult.nrm = {nodes[i].Name : i \in DOMAIN nodes}
        /\ \A i \in DOMAIN nodes :
              LET nr == stResult.nrm[nodes[i].Name]
                  cpu == SumRequests(pods, nodes[i].Name, ResourceCPU, 1)
                  mem == SumRequests(pods, nodes[i].Name, ResourceMemory, 1)
                  gpu == SumRequests(pods, nodes[i].Name, ResourceGPU, 1)
              IN  /\ nr.cpuUsed = IF cpu = 0 THEN MilliValue(Capacity(nodes[i], ResourceCPU)) ELSE cpu
                  /\ nr.memoryUsed = IF mem = 0 THEN Value(Capacity(nodes[i], ResourceMemory)) ELSE mem
                  /\ nr.gpuUsed = IF gpu = 0 THEN Value(Capacity(nodes[i], ResourceGPU)) ELSE gpu

\* The map has been built for a node whose pods request cpu but no memory:
\* its cpu usage is their sum and its memory usage is its capacity.
C10_Witness ==
    /\ stResult.op = "buildNormalizedNodeResourceMap"
    /\ \E i \in DOMAIN nodes :
          /\ SumRequests(pods, nodes[i].Name, ResourceCPU, 1) > 0
          /\ SumRequests(pods, nodes[i].Name, ResourceMemory, 1) = 0
          /\ Value(Capacity(nodes[i], ResourceMemory)) > 0
          /\ stResult.nrm[nodes[i].Name].cpuUsed = SumRequests(pods, nodes[i].Name, ResourceCPU, 1)
          /\ stResult.nrm[nodes[i].Name].memoryUsed = Value(Capacity(nodes[i], ResourceMemory))

\* Pod i runs on a node of the node list whose labels match a pricing entry.
PricedPod(i) ==
    /\ pods[i].NodeName \in DOMAIN buildNodeMap(nodes)
    /\ FindByLabels(stTable, buildNodeMap(nodes)[pods[i].NodeName].Labels).err = "nil"

\* The pricing entry of the node of the priced pod i.
EntryOfPod(i) ==
    stTable[FindByLabels(stTable, buildNodeMap(nodes)[pods[i].NodeName].Labels).entry]

\* The pods of the indices idx, in input order.
PodsOf(idx) ==
    [n \in 1..Cardinality(idx) |->
        pods[CHOOSE i \in idx : Cardinality({j \in idx : j < i}) = n - 1]]

\* C11: GPUPricingStrategy emits no item for a pod whose summed gpu request
\* is zero, and for a pod requesting g > 0 gpu units on a priced node exactly
\* one item of kind gpu with value GPUCost(g, duration) of its raw request,
\* whatever the node's gpu capacity; 1 gpu at 7,000,000 per gpu-hour over one
\* hour gives 7,000,000.
C11_GPUItemsOnlyForRequesters ==
    stResult.op = "GPUPricingStrategy" =>
        LET idx == {i \in DOMAIN pods : PricedPod(i) /\ sumPodResource(pods[i], ResourceGPU) > 0}
        IN  /\ [n \in DOMAIN stResult.items |-> stResult.items[n].Pod] = PodsOf(idx)
            /\ \A n \in DOMAIN stResult.items :
                  LET it == stResult.items[n]
                      i == CHOOSE j \in idx : pods[j] = it.Pod
                      g == sumPodResource(it.Pod, ResourceGPU)
                  IN  /\ it.Kind = "gpu"
                      /\ it.Value = GPUCostMicroCents(EntryOfPod(i), Float64(g), duration)
                      /\ (/\ g = 1
                          /\ duration = Hour
                          /\ EntryOfPod(i).HourlyGPUCostMicroCents = Rate(7000000, 0))
                         => it.Value = 7000000

\* The gpu strategy has priced a pod requesting one gpu at 7,000,000 for one
\* hour and has left out a pod on a priced node that requests none.
C11_Witness ==
    /\ stResult.op = "GPUPricingStrategy"
    /\ duration = Hour
    /\ \E i \in DOMAIN pods :
          PricedPod(i) /\ sumPodResource(pods[i], ResourceGPU) = 0
    /\ Len(stResult.items) = 1
    /\ stResult.items[1].Value = 7000000

\* C18 as stated: after the fallback the usage of every resource of every
\* node in the map is non-zero.
C18_UsageNonZero ==
    stResult.op = "buildNormalizedNodeResourceMap" =>
        \A name \in DOMAIN stResult.nrm :
            /\ stResult.nrm[name].cpuUsed # 0
            /\ stResult.nrm[name].memoryUsed # 0
            /\ stResult.nrm[name].gpuUsed # 0

\* C18, amended: after the fallback the usage of a resource of a node is zero
\* exactly when the node has no capacity of it and no pod on the node
\* requests it, and for such a usage the scale factor is 0, computed without
\* a division.
C18_UsageZeroOnlyWithoutCapacity ==
    stResult.op = "buildNormalizedNodeResourceMap" =>
        \A i \in DOMAIN nodes :
            LET nr == stResult.nrm[nodes[i].Name]
                node == buildNodeMap(nodes)[nodes[i].Name]
            IN  /\ nr.cpuUsed = 0 <=>
                      /\ MilliValue(Capacity(node, ResourceCPU)) = 0
                      /\ SumRequests(pods, nodes[i].Name, ResourceCPU, 1) = 0
                /\ nr.memoryUsed = 0 <=>
                      /\ Value(Capacity(node, ResourceMemory)) = 0
                      /\ SumRequests(pods, nodes[i].Name, ResourceMemory, 1) = 0
                /\ nr.gpuUsed = 0 <=>
                      /\ Value(Capacity(node, ResourceGPU)) = 0
                      /\ SumRequests(pods, nodes[i].Name, ResourceGPU, 1) = 0
                /\ nr.cpuUsed = 0 => CPUScale(nr) = FZero
                /\ nr.memoryUsed = 0 => MemoryScale(nr) = FZero
                /\ nr.gpuUsed = 0 => GPUScale(nr) = FZero

\* The map holds a node without gpu capacity and without gpu requests, whose
\* gpu usage stays zero while its cpu usage is its capacity.
C18_Witness ==
    /\ stResult.op = "buildNormalizedNodeResourceMap"
    /\ \E name \in DOMAIN stResult.nrm :
          /\ stResult.nrm[name].gpuUsed = 0
          /\ stResult.nrm[name].gpuAvailable = 0
          /\ stResult.nrm[name].cpuUsed = stResult.nrm[name].cpuAvailable
          /\ stResult.nrm[name].cpuUsed > 0

\* What the strategy of the last call returns for the pods ps.
StrategyOn(ps) ==
    IF stResult.op = "CPUPricingStrategy" THEN CPUPricingStrategy(stTable, duration, ps, nodes)
    ELSE IF stResult.op = "MemoryPricingStrategy" THEN MemoryPricingStrategy(stTable, duration, ps, nodes)
    ELSE WeightedPricingStrategy(stTable, duration, ps, nodes)

\* C19: CPUPricingStrategy, MemoryPricingStrategy and WeightedPricingStrategy
\* return exactly one item for each pod whose node is listed and priced, in
\* pod input order, of value 0 for a pod without requests; a pod whose node
\* is missing or unpriced is skipped and does not change the other items.
C19_OneItemPerPricedPod ==
    stResult.op \in {"CPUPricingStrategy", "MemoryPricingStrategy", "WeightedPricingStrategy"} =>
        LET idx == {i \in DOMAIN pods : PricedPod(i)}
        IN  /\ [n \in DOMAIN stResult.items |-> stResult.items[n].Pod] = PodsOf(idx)
            /\ stResult.items = StrategyOn(PodsOf(idx))
            /\ \A n \in DOMAIN stResult.items :
                  (/\ sumPodResource(stResult.items[n].Pod, ResourceCPU) = 0
                   /\ sumPodResource(stResult.items[n].Pod, ResourceMemory) = 0
                   /\ sumPodResource(stResult.items[n].Pod, ResourceGPU) = 0)
                  => stResult.items[n].Value = 0

\* A strategy has priced a pod without requests at 0 after skipping a pod
\* whose node is missing or unpriced.
C19_Witness ==
    /\ stResult.op \in {"CPUPricingStrategy", "MemoryPricingStrategy", "WeightedPricingStrategy"}
    /\ Len(pods) = 2
    /\ ~PricedPod(1)
    /\ PricedPod(2)
    /\ pods[2] = PodNoResources
    /\ Len(stResult.items) = 1
    /\ stResult.items[1].Value = 0

\* The nodes of the indices idx, in input order.
NodesOf(idx) ==
    [n \in 1..Cardinality(idx) |->
        nodes[CHOOSE i \in idx : Cardinality({j \in idx : j < i}) = n - 1]]

\* C23: NodePricingStrategy returns exactly one item per node that has a
\* pricing entry, in node input order, of kind node, without pod, of value
\* MemoryCost(memory capacity in bytes) + CPUCost(cpu capacity in millicpus)
\* + GPUCost(gpu capacity), the last being 0 for a node that advertises no
\* gpu; the items do not depend on the pods.  The test node (1 cpu, 1 Gi)
\* costs 1,074,741,824 for one hour, the gpu test node 8,000,000.
C23_OneItemPerPricedNode ==
    stResult.op = "NodePricingStrategy" =>
        LET idx == {i \in DOMAIN nodes : FindByLabels(stTable, nodes[i].Labels).err = "nil"}
        IN  /\ [n \in DOMAIN stResult.items |-> stResult.items[n].Node] = NodesOf(idx)
            /\ stResult.items = NodePricingStrategy(stTable, duration, <<>>, nodes)
            /\ \A n \in DOMAIN stResult.items :
                  LET it == stResult.items[n]
                      te == stTable[FindByLabels(stTable, it.Node.Labels).entry]
                      mem == MemoryCostMicroCents(te,
                                 Float64(Value(Capacity(it.Node, ResourceMemory))), duration)
                      cpu == CPUCostMicroCents(te,
                                 Float64(MilliValue(Capacity(it.Node, ResourceCPU))), duration)
                      gpu == IF ResourceGPU \in DOMAIN it.Node.Capacity
                             THEN GPUCostMicroCents(te,
                                      Float64(Value(it.Node.Capacity[ResourceGPU])), duration)
                             ELSE 0
                  IN  /\ it.Kind = "node"
                      /\ it.Strategy = "NodePricingStrategy"
                      /\ it.Pod = NoPod
                      /\ it.Value = mem + cpu + gpu
                      /\ (it.Node = NodeStd /\ te = TestEntry /\ duration = Hour)
                             => it.Value = 1074741824
                      /\ (it.Node = NodeGPU /\ te = TestEntry /\ duration = Hour)
                             => it.Value = 8000000

\* The node strategy has priced the test node and the gpu test node for one
\* hour, skipped a node without pricing entry, and was given pods.
C23_Witness ==
    /\ stResult.op = "NodePricingStrategy"
    /\ duration = Hour
    /\ Len(pods) > 0
    /\ Len(nodes) = 3
    /\ Len(stResult.items) = 2
    /\ \E n \in DOMAIN stResult.items : stResult.items[n].Value = 1074741824
    /\ \E n \in DOMAIN stResult.items :
          /\ ResourceGPU \in DOMAIN stResult.items[n].Node.Capacity
          /\ stResult.items[n].Value > 0

\* What one container asks of a kind in the unit sumPodResource reports:
\* thousandths for cpu, whole bytes and whole devices (rounded up) for memory
\* and GPU, nothing when the container has no request for the kind.
RequestOf(c, kind) ==
    IF kind \notin DOMAIN c THEN 0
    ELSE IF kind = ResourceCPU
         THEN (IF c[kind].milli THEN c[kind].n ELSE 1000 * c[kind].n)
         ELSE (IF c[kind].milli THEN (c[kind].n + 999) \div 1000 ELSE c[kind].n)

\* The whole units one container asks of a kind, and the thousandths beyond
\* them.
WholeRequestOf(c, kind) ==
    IF kind \notin DOMAIN c THEN 0
    ELSE IF c[kind].milli THEN c[kind].n \div 1000 ELSE c[kind].n

FractionRequestOf(c, kind) ==
    IF kind \notin DOMAIN c THEN 0
    ELSE IF c[kind].milli THEN c[kind].n % 1000 ELSE 0

RECURSIVE TotalRequest(_, _, _)
TotalRequest(cs, kind, n) ==
    IF n = 0 THEN 0 ELSE TotalRequest(cs, kind, n - 1) + RequestOf(cs[n], kind)

RECURSIVE TotalWholeRequest(_, _, _)
TotalWholeRequest(cs, kind, n) ==
    IF n = 0 THEN 0 ELSE TotalWholeRequest(cs, kind, n - 1) + WholeRequestOf(cs[n], kind)

RECURSIVE TotalFractionRequest(_, _, _)
TotalFractionRequest(cs, kind, n) ==
    IF n = 0 THEN 0 ELSE TotalFractionRequest(cs, kind, n - 1) + FractionRequestOf(cs[n], kind)

RECURSIVE CountPodsOn(_, _, _)
CountPodsOn(ps, name, i) ==
    IF i > Len(ps) THEN 0
    ELSE (IF ps[i].NodeName = name THEN 1 ELSE 0) + CountPodsOn(ps, name, i + 1)

\* Every resource of node i that has a non-zero rate in the node's entry and
\* a non-zero capacity is requested by some pod on the node.
AllPricedRequested(i) ==
    LET te == stTable[FindByLabels(stTable, nodes[i].Labels).entry]
        asked(kind) == SumRequests(pods, nodes[i].Name, kind, 1) # 0
    IN  /\ (te.HourlyMilliCPUCostMicroCents.num # 0
              /\ MilliValue(Capacity(nodes[i], ResourceCPU)) # 0) => asked(ResourceCPU)
        /\ (te.HourlyMemoryByteCostMicroCents.num # 0
              /\ Value(Capacity(nodes[i], ResourceMemory)) # 0) => asked(ResourceMemory)
        /\ (te.HourlyGPUCostMicroCents.num # 0
              /\ Value(Capacity(nodes[i], ResourceGPU)) # 0) => asked(ResourceGPU)

----------------------------------------------------------------------------
(* Properties of the Mapper.                                               *)

\* Rule i is the last rule of the mapper with its destination name.
LastFor(i) ==
    \A j \in DOMAIN mapper : mapper[j].Destination = mapper[i].Destination => j <= i

\* C16: for every rule whose path finds nothing in the object or yields the
\* empty string, MapData sets the rule's destination to the rule's default;
\* when the path yields a non-empty string the destination gets that string
\* and the default is not used.
C16_DefaultWhenEmpty ==
    (mapResult.op = "MapData" /\ mapResult.err = "nil") =>
        \A i \in DOMAIN mapper :
            (LastFor(i) /\ mapper[i].Source.shape = "path") =>
                LET found == Find(mapObj, mapper[i].Source.names, 1)
                IN  IF Len(found) = 0 \/ (found[1].leaf /\ found[1].text = "")
                    THEN mapResult.res[mapper[i].Destination] = mapper[i].Default
                    ELSE /\ mapResult.res[mapper[i].Destination] = Execute(mapper[i].Source, mapObj)
                         /\ mapResult.res[mapper[i].Destination] # ""

\* MapData has mapped one rule whose path is missing to its default and one
\* rule whose path exists to the value found, although it has a default.
C16_Witness ==
    /\ mapResult.op = "MapData"
    /\ mapResult.err = "nil"
    /\ Len(mapper) = 2
    /\ mapper[1] = Mapping("fresh-default", "service", Path(<<"Metadata", "Annotations", "nonexistent">>))
    /\ mapper[2] = Mapping("fresh-default", "team", Path(<<"Metadata", "Labels", "service">>))
    /\ mapResult.res["service"] = "fresh-default"
    /\ mapResult.res["team"] = "svc-via-label"

\* C17: on success the keys of the map MapData returns are exactly the
\* destination names of the rules, and a destination that several rules
\* share holds what the last of them in list order produced (its extracted
\* value, or its default when the extraction is empty).
C17_LastRuleWins ==
    (mapResult.op = "MapData" /\ mapResult.err = "nil") =>
        /\ DOMAIN mapResult.res = {mapper[i].Destination : i \in DOMAIN mapper}
        /\ \A i \in DOMAIN mapper :
              LastFor(i) =>
                  LET out == Execute(mapper[i].Source, mapObj)
                  IN  mapResult.res[mapper[i].Destination]
                          = IF out = "" THEN mapper[i].Default ELSE out

\* MapData has applied two rules of one destination that produce different
\* values, the second by its default, and the map holds the second's.
C17_Witness ==
    /\ mapResult.op = "MapData"
    /\ mapResult.err = "nil"
    /\ Len(mapper) = 2
    /\ mapper[1].Destination = mapper[2].Destination
    /\ Execute(mapper[1].Source, mapObj) = "svc-via-annotation"
    /\ Execute(mapper[2].Source, mapObj) = ""
    /\ mapper[2].Default = "fresh-default"
    /\ DOMAIN mapResult.res = {mapper[2].Destination}
    /\ mapResult.res[mapper[2].Destination] = "fresh-default"

\* C24: MapData returns an error only when the path expression of one of its
\* rules is rejected by the JSONPath parser or cannot be evaluated on the
\* object, and then it returns no map at all, whatever the rules before the
\* failing one produced; an object that lacks the field a rule refers to
\* never produces an error.
C24_ErrorOnlyForInvalidPath ==
    mapResult.op = "MapData" =>
        /\ mapResult.err # "nil"
              <=> \E i \in DOMAIN mapper :
                     \/ mapper[i].Source.shape = "bad"
                     \/ /\ mapper[i].Source.shape = "index"
                        /\ Find(mapObj, mapper[i].Source.names, 1) # <<>>
        /\ mapResult.err # "nil" => mapResult.res = <<>>
        /\ (\A i \in DOMAIN mapper :
               /\ mapper[i].Source.shape # "bad"
               /\ mapper[i].Source.shape # "text" => Find(mapObj, mapper[i].Source.names, 1) = <<>>)
              => mapResult.err = "nil"

\* MapData has failed on its second rule after a first rule that produces a
\* value from the object, and returned nothing.
C24_Witness ==
    /\ mapResult.op = "MapData"
    /\ Len(mapper) = 2
    /\ mapper[1].Source = Path(<<"Metadata", "Labels", "service">>)
    /\ mapper[1].Destination = "service"
    /\ mapper[2].Source = Bad
    /\ mapResult.err = "parse"
    /\ mapResult.res = <<>>

-----------------------------------------------------------------------------
(* Properties of the coster.                                                *)

\* C12: a cycle after the first whose elapsed time is not positive ends with
\* ErrSenselessInterval: no exporter's ExportCost is called in it, the cycle
\* is recorded as failed, and the loop does not return because of it: it
\* leaves only when the context is cancelled, so it is there for the next
\* tick.
C12_SenselessCycleExportsNothing ==
    /\ (finished > 0 /\ ~lastCycle.first /\ lastCycle.elapsed <= 0)
           => lastCycle.err = ErrSenselessInterval
    /\ lastCycle.err = ErrSenselessInterval
           => /\ lastCycle.status = tagStatusFailed
              /\ lastCycle.exported = 0
              /\ \A e \in DOMAIN received : loopPc = "select" => received[e] = <<>>
    /\ taskPc[TaskLoop] = "ret" => ctxCancelled

\* A senseless cycle has been recorded, there was something to export, and
\* the loop has taken the next tick and is about to export.
C12_Witness ==
    /\ lastCycle.err = ErrSenselessInterval
    /\ lastCycle.elapsed <= 0
    /\ taken = finished + 1
    /\ loopPc = "emit"
    /\ EmitFrom(config.Mapper, cis, 1) # <<>>

\* C13: at most one CalculateAndEmit runs at a time: the ticks taken are the
\* cycles finished, plus the one running when the loop is not at its select;
\* a tick that fires during a cycle waits in the channel.
C13_OneCycleAtATime ==
    /\ taken - finished \in {0, 1}
    /\ taken = finished <=> loopPc = "select"

\* A tick has fired while the second cycle is exporting.
C13_Witness ==
    /\ loopPc = "emit"
    /\ tickC
    /\ finished = 1
    /\ taken = 2

\* The pods of ps in the Running phase, in order.
RunningOf(ps) ==
    SelectSeq(ps, LAMBDA p : p.Phase = "Running")

\* C20: in one cycle the pod list and the node list are each read once, and
\* every strategy is called, in the configured order, with the pods read
\* (those in the Running phase), the nodes read, the configured pricing table
\* and one duration.
C20_OneSnapshotPerCycle ==
    /\ Len(reads.pods) <= 1
    /\ Len(reads.nodes) <= 1
    /\ loopPc \in {"strategies", "emit"} => Len(reads.pods) = 1 /\ Len(reads.nodes) = 1
    /\ loopPc = "emit" => Len(calls) = Len(Strategies)
    /\ \A i \in DOMAIN calls :
          /\ calls[i].strategy = Strategies[i]
          /\ calls[i].pods = RunningOf(reads.pods[1])
          /\ calls[i].nodes = reads.nodes[1]
          /\ calls[i].table = config.Pricing
          /\ calls[i].duration = calls[1].duration
          /\ calls[i].duration = cyInterval

\* Every strategy has been called, the pods read held one that is not
\* running, and the cluster has changed since the lists were read.
C20_Witness ==
    /\ loopPc = "emit"
    /\ Len(calls) = Len(Strategies)
    /\ RunningOf(reads.pods[1]) # reads.pods[1]
    /\ PodCaches[cluster] # reads.pods[1]
    /\ NodeCaches[cluster] # reads.nodes[1]

\* C14: a goroutine of Run that has returned has cancelled the context; once
\* one has returned, or the caller has cancelled, all four eventually
\* return; the loop returns nil, so the error of Run is never its; and Run
\* returns only after the four have.
C14_ReturnCancelsAll ==
    /\ []((\E t \in Tasks : taskPc[t] = "ret") => ctxCancelled)
    /\ [](mainPc = "returned" => \A t \in Tasks : taskPc[t] = "ret")
    /\ [](groupErr \in {"nil", ErrCacheSyncFailed, ErrListen, ErrServerClosed})
    /\ (\E t \in Tasks : taskPc[t] = "ret") ~> (\A t \in Tasks : taskPc[t] = "ret")
    /\ (mainPc = "run" /\ ctxCancelled) ~> (taskPc[TaskLoop] = "ret")
    /\ (mainPc = "run" /\ ctxCancelled) ~> (mainPc = "returned")

\* The server failed while the loop was in a cycle, and Run has returned the
\* server's error.
C14_Witness ==
    /\ mainPc = "returned"
    /\ groupErr = ErrListen
    /\ finished > 0

\* C15 as stated: Run is entered only with a configuration that decodes,
\* whose destinations are tag keys and whose path expressions all parse.
C15_InvalidConfigRejected ==
    mainPc \in {"run", "returned"}
        => /\ config.decodes
           /\ TagKeys(config.Mapper).err = "nil"
           /\ \A i \in DOMAIN config.Mapper : ~ParseFails(config.Mapper[i].Source)


\* The items the strategy calls from call c on returned, in call order.
RECURSIVE ItemsOfCalls(_, _)
ItemsOfCalls(cs, c) ==
    IF c > Len(cs) THEN <<>>
    ELSE Calculated[cs[c]] \o ItemsOfCalls(cs, c + 1)

\* C21: in a successful cycle every CostItem the strategies returned is
\* handed, as a CostData with the item's Kind, Strategy and Value and the
\* dimensions Mapper.MapData gives for the item, to ExportCost of every
\* exporter exactly once, in strategy-then-item order; an item the mapper
\* fails on is skipped, and the items after it are still exported.
C21_EveryItemToEveryExporter ==
    [][(loopPc = "emit" /\ loopPc' = "select") =>
          LET mapped(i) == MapData(config.Mapper, ItemObject(cis[i]))
              ok == {i \in DOMAIN cis : mapped(i).err = "nil"}
              nth(n) == CHOOSE i \in ok : Cardinality({j \in ok : j < i}) = n - 1
          IN  /\ [c \in DOMAIN calls |-> calls[c].strategy] = Strategies
              /\ cis = ItemsOfCalls(calls, 1)
              /\ lastCycle'.status = tagStatusSucceeded
              /\ \A e \in 1..NumExporters :
                    /\ Len(received'[e]) = Cardinality(ok)
                    /\ \A n \in 1..Cardinality(ok) :
                          /\ received'[e][n].Kind = cis[nth(n)].Kind
                          /\ received'[e][n].Strategy = cis[nth(n)].Strategy
                          /\ received'[e][n].Value = cis[nth(n)].Value
                          /\ received'[e][n].Dimensions = mapped(nth(n)).res]_vars

\* A cycle has succeeded under a rule that cannot be evaluated on the items
\* of a pod: the exporters were handed the items of the nodes, which come
\* after those of the pods, and nothing else.
C21_Witness ==
    /\ config = BadIndexConfig
    /\ loopPc = "select"
    /\ lastCycle.status = tagStatusSucceeded
    /\ \A e \in 1..NumExporters :
          /\ Len(received[e]) > 0
          /\ \A n \in DOMAIN received[e] :
                /\ received[e][n].Strategy = "NodePricingStrategy"
                /\ received[e][n].Dimensions = [pod |-> "unknown", kind |-> "node"]

=============================================================================
